---- MODULE Spec2Model ----
(***************************************************************************)
(* A model of the diagnostic rule engine of php-checker: the TypeHint      *)
(* compatibility relation, the in-source ignore directives, the rule       *)
(* configuration lookup, the text-edit engine and the per-file dispatch.   *)
(* Each component has its own specification over its own variables; the    *)
(* variables of the other components stay at their idle values.            *)
(***************************************************************************)
EXTENDS Integers, Sequences, FiniteSets, TLC

VARIABLES
    \* is_type_compatible: the two arguments, the call's position, the result
    tActual, tExpected, tPc, tResult,
    \* a chain of two calls: the type in the middle and the two results
    tVia, tLeft, tRight,
    \* AnalyzerConfig::enabled: the rules map, the rule name, position, result
    cRules, cName, cPc, cResult,
    \* apply_text_edits: the source, the edit list, position, outcome
    fSource, fEdits, fPc, fResult,
    \* IgnoreState: the source text, the parsed state, position, the rule
    \* asked about and the answer of should_ignore
    iSource, iState, iPc, iRule, iAnswer,
    \* Analyzer: the text of the file, the rules kept by Analyzer::new, the
    \* position, the result of dispatch, the rules whose run was invoked,
    \* whether a Test Override was computed, the edits of fix_files and the
    \* patched text
    aSource, aRules, aPc, aDiagnostics, aRan, aTestComputed, aEdits, aPatched,
    \* File metadata and symbol resolution: the use declarations of a file,
    \* the alias map collected from them, the file's scope in the context
    \* (<<>> when it has none), the function index, the name looked up, the
    \* position and the symbol found (<<>> when none)
    pDecls, pUses, pScope, pIndex, pName, pPc, pResult,
    \* Whole-root analysis: the input files by path, the configuration, the
    \* position of the calling thread, the position of each phase-1 worker,
    \* the holder of the mutex (0 when free), the number of handles to the
    \* accumulator, the Project Context, the iteration order of its sources,
    \* the files analysed in phase 2 with their diagnostics, whether the
    \* PSR-4 check ran past its gate, and the diagnostics returned
    rFiles, rConfig, rPc, rWorker, rLock, rStrong, rContext, rOrder,
    rAnalysed, rFileDiags, rPsr4Ran, rOutput,
    \* covering_line_range: the source, the byte range, position, the result
    lSource, lStart, lEnd, lPc, lResult,
    \* TestConfig::from_source: the source, position, the parsed configuration
    oSource, oPc, oConfig,
    \* ScopeVisitor: the nodes of the tree in walk order, the number of nodes
    \* visited, the scope stack, the positions of the reported nodes, position
    vNodes, vPos, vScopes, vDiagnostics, vPc,
    \* strict_typing/missing_return: the body of the function, position, whether
    \* the rule reported the function
    mBody, mPc, mReported,
    \* type_expression_to_hint: the documentation type-expression, position, the
    \* result (<<>> for None, <<hint>> for Some)
    eExpr, ePc, eResult,
    \* check_array_elements: the value nodes of the array literal, the expected
    \* element type, position, the diagnostics (element index and message kind)
    xElements, xExpected, xPc, xDiagnostics,
    \* Worker scheduling and strict_typing/missing_argument: the input files by
    \* path, the paths in the order their workers inserted them, the function
    \* index of the Project Context, position, the set of diagnostics returned
    dFiles, dInserted, dIndex, dPc, dOutput

typeVars == <<tActual, tExpected, tPc, tResult, tVia, tLeft, tRight>>

configVars == <<cRules, cName, cPc, cResult>>

fixVars == <<fSource, fEdits, fPc, fResult>>

ignoreVars == <<iSource, iState, iPc, iRule, iAnswer>>

analyzerVars ==
    <<aSource, aRules, aPc, aDiagnostics, aRan, aTestComputed, aEdits, aPatched>>

projectVars == <<pDecls, pUses, pScope, pIndex, pName, pPc, pResult>>

rootVars ==
    <<rFiles, rConfig, rPc, rWorker, rLock, rStrong, rContext, rOrder,
      rAnalysed, rFileDiags, rPsr4Ran, rOutput>>

linesVars == <<lSource, lStart, lEnd, lPc, lResult>>

overrideVars == <<oSource, oPc, oConfig>>

visitorVars == <<vNodes, vPos, vScopes, vDiagnostics, vPc>>

returnVars == <<mBody, mPc, mReported>>

exprVars == <<eExpr, ePc, eResult>>

elementsVars == <<xElements, xExpected, xPc, xDiagnostics>>

schedVars == <<dFiles, dInserted, dIndex, dPc, dOutput>>

vars ==
    <<typeVars, configVars, fixVars, ignoreVars, analyzerVars, projectVars,
      rootVars, linesVars, overrideVars, visitorVars, returnVars, exprVars,
      elementsVars, schedVars>>

\* What the actions of one component leave alone.
TypesFrame ==
    UNCHANGED <<configVars, fixVars, ignoreVars, analyzerVars, projectVars,
                rootVars, linesVars, overrideVars, visitorVars, returnVars,
                exprVars, elementsVars, schedVars>>

ConfigFrame ==
    UNCHANGED <<typeVars, fixVars, ignoreVars, analyzerVars, projectVars,
                rootVars, linesVars, overrideVars, visitorVars, returnVars,
                exprVars, elementsVars, schedVars>>

FixFrame ==
    UNCHANGED <<typeVars, configVars, ignoreVars, analyzerVars,
                projectVars, rootVars, linesVars, overrideVars,
                visitorVars, returnVars, exprVars, elementsVars, schedVars>>

IgnoreFrame ==
    UNCHANGED <<typeVars, configVars, fixVars, analyzerVars, projectVars,
                rootVars, linesVars, overrideVars, visitorVars, returnVars,
                exprVars, elementsVars, schedVars>>

AnalyzerFrame ==
    UNCHANGED <<typeVars, configVars, fixVars, ignoreVars, projectVars,
                rootVars, linesVars, overrideVars, visitorVars, returnVars,
                exprVars, elementsVars, schedVars>>

ProjectFrame ==
    UNCHANGED <<typeVars, configVars, fixVars, ignoreVars, analyzerVars,
                rootVars, linesVars, overrideVars, visitorVars, returnVars,
                exprVars, elementsVars, schedVars>>

RootFrame ==
    UNCHANGED <<typeVars, configVars, fixVars, ignoreVars, analyzerVars,
                projectVars, linesVars, overrideVars, visitorVars,
                returnVars, exprVars, elementsVars, schedVars>>

LinesFrame ==
    UNCHANGED <<typeVars, configVars, fixVars, ignoreVars, analyzerVars,
                projectVars, rootVars, overrideVars, visitorVars,
                returnVars, exprVars, elementsVars, schedVars>>

OverrideFrame ==
    UNCHANGED <<typeVars, configVars, fixVars, ignoreVars, analyzerVars,
                projectVars, rootVars, linesVars, visitorVars, returnVars,
                exprVars, elementsVars, schedVars>>

VisitorFrame ==
    UNCHANGED <<typeVars, configVars, fixVars, ignoreVars, analyzerVars,
                projectVars, rootVars, linesVars, overrideVars, returnVars,
                exprVars, elementsVars, schedVars>>

ReturnFrame ==
    UNCHANGED <<typeVars, configVars, fixVars, ignoreVars, analyzerVars,
                projectVars, rootVars, linesVars, overrideVars,
                visitorVars, exprVars, elementsVars, schedVars>>

ExprFrame ==
    UNCHANGED <<typeVars, configVars, fixVars, ignoreVars, analyzerVars,
                projectVars, rootVars, linesVars, overrideVars,
                visitorVars, returnVars, elementsVars, schedVars>>

ElementsFrame ==
    UNCHANGED <<typeVars, configVars, fixVars, ignoreVars, analyzerVars,
                projectVars, rootVars, linesVars, overrideVars,
                visitorVars, returnVars, exprVars, schedVars>>

SchedFrame ==
    UNCHANGED <<typeVars, configVars, fixVars, ignoreVars, analyzerVars,
                projectVars, rootVars, linesVars, overrideVars,
                visitorVars, returnVars, exprVars, elementsVars>>

(***************************************************************************)
(* Generic helpers.                                                        *)
(***************************************************************************)

\* All sequences over S of length 1..n.
RECURSIVE SeqsOfLen(_, _)
SeqsOfLen(S, n) ==
    IF n = 0 THEN {<<>>}
    ELSE {Append(s, x) : s \in SeqsOfLen(S, n - 1), x \in S}

NonEmptySeqsUpTo(S, n) == UNION {SeqsOfLen(S, k) : k \in 1..n}

SeqsUpTo(S, n) == UNION {SeqsOfLen(S, k) : k \in 0..n}

(***************************************************************************)
(* TypeHint: the closed sum type of helpers.rs.  A value is a tuple whose  *)
(* first element is the variant tag.                                       *)
(***************************************************************************)

HintInt == <<"Int">>
HintString == <<"String">>
HintBool == <<"Bool">>
HintFloat == <<"Float">>
HintUnknown == <<"Unknown">>
HintObject(name) == <<"Object", name>>
HintNullable(t) == <<"Nullable", t>>
HintUnion(ts) == <<"Union", ts>>
HintArray(t) == <<"Array", t>>
HintGenericArray(k, v) == <<"GenericArray", k, v>>
HintShapedArray(fields) == <<"ShapedArray", fields>>

Tag(t) == t[1]

\* Bounds of the enumerated TypeHint values.
MaxUnionLen == 2
MaxShapeLen == 2

FieldNames == {"f", "g"}

\* Every variant without a payload type, plus one class name.
HintAtoms ==
    {HintInt, HintString, HintBool, HintFloat, HintObject("A"), HintUnknown}

\* The types nested directly under a first-level constructor.
HintInner == {HintInt, HintString, HintUnknown}

HintLevel1 ==
    HintAtoms
    \cup {HintNullable(t) : t \in HintInner}
    \cup {HintArray(t) : t \in HintInner}
    \cup {HintGenericArray(k, v) : k \in {HintInt, HintString}, v \in {HintInt, HintString}}
    \cup {HintUnion(ts) : ts \in NonEmptySeqsUpTo(HintInner, MaxUnionLen)}
    \cup {HintShapedArray(fs) :
            fs \in NonEmptySeqsUpTo(FieldNames \X {HintInt, HintString}, MaxShapeLen)}

\* The types nested under a second-level constructor.
HintMid ==
    {HintInt, HintUnknown, HintNullable(HintInt),
     HintUnion(<<HintInt, HintString>>), HintArray(HintInt)}

HintLevel2 ==
    HintLevel1
    \cup {HintUnion(ts) : ts \in NonEmptySeqsUpTo(HintMid, MaxUnionLen)}
    \cup {HintArray(t) : t \in HintMid}

TypeHints == HintLevel2 \cup {HintNullable(t) : t \in HintLevel2}

(***************************************************************************)
(* is_type_compatible (helpers.rs), one operator per match arm.            *)
(***************************************************************************)

RECURSIVE IsTypeCompatible(_, _)

\* Mutant: the exact-match shortcut is left out.
ExactMatchOmitted(actual, expected) == FALSE

\* `if actual == expected { return true; }`
ExactMatch(actual, expected) == actual = expected

\* Mutant: only the "any member" test is made; a union actual is not
\* compared member by member.
ExpectedUnionAnyMemberOnly(actual, expected_types) ==
    \E i \in DOMAIN expected_types : IsTypeCompatible(actual, expected_types[i])

\* expected is Union(expected_types)
ExpectedUnion(actual, expected_types) ==
    \/ \E i \in DOMAIN expected_types : IsTypeCompatible(actual, expected_types[i])
    \/ /\ Tag(actual) = "Union"
       /\ \A j \in DOMAIN actual[2] :
            \E i \in DOMAIN expected_types :
                IsTypeCompatible(actual[2][j], expected_types[i])

\* Mutant: only a nullable actual is accepted by a nullable expected.
ExpectedNullableFromNullableOnly(actual, expected_inner) ==
    /\ Tag(actual) = "Nullable"
    /\ IsTypeCompatible(actual[2], expected_inner)

\* expected is Nullable(expected_inner)
ExpectedNullable(actual, expected_inner) ==
    \/ IsTypeCompatible(actual, expected_inner)
    \/ /\ Tag(actual) = "Nullable"
       /\ IsTypeCompatible(actual[2], expected_inner)

\* Mutant: arrays match when the element types are compatible either way.
ExpectedArrayEitherWay(actual, expected_elem) ==
    /\ Tag(actual) = "Array"
    /\ \/ IsTypeCompatible(actual[2], expected_elem)
       \/ IsTypeCompatible(expected_elem, actual[2])

\* expected is Array(expected_elem)
ExpectedArray(actual, expected_elem) ==
    /\ Tag(actual) = "Array"
    /\ IsTypeCompatible(actual[2], expected_elem)

\* expected is GenericArray { key, value }
ExpectedGenericArray(actual, expected_key, expected_value) ==
    /\ Tag(actual) = "GenericArray"
    /\ IsTypeCompatible(actual[2], expected_key)
    /\ IsTypeCompatible(actual[3], expected_value)

\* Mutant: a nullable actual is unwrapped and its inner type compared.
ExpectedOtherUnwrapsNullable(actual, expected) ==
    IF Tag(actual) = "Union"
    THEN \A j \in DOMAIN actual[2] : IsTypeCompatible(actual[2][j], expected)
    ELSE IF Tag(actual) = "Nullable"
         THEN IsTypeCompatible(actual[2], expected)
         ELSE FALSE

\* Mutant: an Unknown expected type accepts every actual type.
ExpectedOtherUnknownAcceptsAll(actual, expected) ==
    IF Tag(actual) = "Union"
    THEN \A j \in DOMAIN actual[2] : IsTypeCompatible(actual[2][j], expected)
    ELSE expected = HintUnknown

\* the `_` arm: expected is a primitive, Object, ShapedArray or Unknown
ExpectedOther(actual, expected) ==
    IF Tag(actual) = "Union"
    THEN \A j \in DOMAIN actual[2] : IsTypeCompatible(actual[2][j], expected)
    ELSE FALSE

IsTypeCompatible(actual, expected) ==
    IF ExactMatch(actual, expected) THEN TRUE
    ELSE CASE Tag(expected) = "Union" -> ExpectedUnion(actual, expected[2])
           [] Tag(expected) = "Nullable" -> ExpectedNullable(actual, expected[2])
           [] Tag(expected) = "Array" -> ExpectedArray(actual, expected[2])
           [] Tag(expected) = "GenericArray" ->
                ExpectedGenericArray(actual, expected[2], expected[3])
           [] OTHER -> ExpectedOther(actual, expected)

(***************************************************************************)
(* SpecTypes: one call of is_type_compatible on a pair of TypeHint values. *)
(***************************************************************************)

TypesInit ==
    /\ tActual \in TypeHints
    /\ tExpected \in TypeHints
    /\ tPc = "call"
    /\ tResult = FALSE
    /\ tVia = HintUnknown
    /\ tLeft = FALSE
    /\ tRight = FALSE

TypesIdle ==
    /\ tActual = HintUnknown
    /\ tExpected = HintUnknown
    /\ tPc = "idle"
    /\ tResult = FALSE
    /\ tVia = HintUnknown
    /\ tLeft = FALSE
    /\ tRight = FALSE

CallIsTypeCompatible ==
    /\ tPc = "call"
    /\ tResult' = IsTypeCompatible(tActual, tExpected)
    /\ tPc' = "done"
    /\ UNCHANGED <<tActual, tExpected, tVia, tLeft, tRight>>
    /\ TypesFrame

TypesNext == CallIsTypeCompatible

\* Types for chains of calls: every variant, nested twice, unions of the
\* primitive types up to MaxChainUnionLen members.
MaxChainUnionLen == 2

ChainUnions ==
    {HintUnion(ts) : ts \in NonEmptySeqsUpTo({HintInt, HintString}, MaxChainUnionLen)}

ChainLevel1 ==
    {HintInt, HintString, HintUnknown, HintObject("A")}
    \cup ChainUnions
    \cup {HintNullable(HintInt), HintNullable(HintUnknown),
          HintArray(HintInt), HintArray(HintString),
          HintGenericArray(HintInt, HintInt), HintGenericArray(HintInt, HintString),
          HintShapedArray(<<<<"a", HintInt>>>>)}

ChainMembers ==
    {HintInt, HintUnknown, HintNullable(HintInt), HintArray(HintInt),
     HintUnion(<<HintInt, HintString>>), HintUnion(<<HintString, HintInt>>)}

ChainHints ==
    ChainLevel1
    \cup {HintNullable(t) : t \in ChainUnions \cup {HintNullable(HintInt), HintArray(HintInt)}}
    \cup {HintUnion(<<x, y>>) : x \in ChainMembers, y \in ChainMembers}
    \cup {HintArray(HintNullable(HintInt)), HintArray(HintUnion(<<HintInt, HintString>>)),
          HintGenericArray(HintInt, HintNullable(HintInt))}

ChainInit ==
    /\ tActual \in ChainHints
    /\ tVia \in ChainHints
    /\ tExpected \in ChainHints
    /\ tPc = "call"
    /\ tResult = FALSE
    /\ tLeft = FALSE
    /\ tRight = FALSE

\* The three calls is_type_compatible(A, B), (B, C) and (A, C).
CallChain ==
    /\ tPc = "call"
    /\ tLeft' = IsTypeCompatible(tActual, tVia)
    /\ tRight' = IsTypeCompatible(tVia, tExpected)
    /\ tResult' = IsTypeCompatible(tActual, tExpected)
    /\ tPc' = "done"
    /\ UNCHANGED <<tActual, tVia, tExpected>>
    /\ TypesFrame

ChainNext == CallChain

(***************************************************************************)
(* Text.  A string is a sequence of characters; a character is a           *)
(* one-letter string.                                                      *)
(***************************************************************************)

Max(S) == CHOOSE x \in S : \A y \in S : y <= x

Min(S) == CHOOSE x \in S : \A y \in S : x <= y

\* str::rfind(ch): the last position of ch in s, 0 when there is none.
RFind(s, ch) ==
    LET hits == {i \in DOMAIN s : s[i] = ch}
    IN IF hits = {} THEN 0 ELSE Max(hits)

\* s[..i) in the source's 0-based offsets: the first n characters.
Take(s, n) == SubSeq(s, 1, n)

\* s[n..): what follows the first n characters.
Drop(s, n) == SubSeq(s, n + 1, Len(s))

StartsWith(s, prefix) ==
    /\ Len(prefix) <= Len(s)
    /\ Take(s, Len(prefix)) = prefix

\* str::find(pat): the 0-based offset of the first occurrence, -1 for None.
Find(s, pat) ==
    LET hits == {i \in 0..(Len(s) - Len(pat)) : SubSeq(s, i + 1, i + Len(pat)) = pat}
    IN IF hits = {} THEN -1 ELSE Min(hits)

Whitespace == {" "}

RECURSIVE TrimStartMatches(_, _)
TrimStartMatches(s, chars) ==
    IF s # <<>> /\ Head(s) \in chars THEN TrimStartMatches(Tail(s), chars) ELSE s

RECURSIVE TrimEndMatches(_, _)
TrimEndMatches(s, chars) ==
    IF s # <<>> /\ s[Len(s)] \in chars
    THEN TrimEndMatches(Take(s, Len(s) - 1), chars)
    ELSE s

TrimMatches(s, chars) == TrimEndMatches(TrimStartMatches(s, chars), chars)

TrimStart(s) == TrimStartMatches(s, Whitespace)

TrimEnd(s) == TrimEndMatches(s, Whitespace)

Trim(s) == TrimMatches(s, Whitespace)

\* str::split on a set of separator characters: the pieces between them,
\* empty pieces included.
RECURSIVE SplitOn(_, _)
SplitOn(s, seps) ==
    LET hits == {i \in DOMAIN s : s[i] \in seps}
    IN IF hits = {} THEN <<s>>
       ELSE <<Take(s, Min(hits) - 1)>> \o SplitOn(Drop(s, Min(hits)), seps)

\* str::lines: the pieces between newlines, without a final empty piece.
Lines(text) ==
    LET pieces == SplitOn(text, {"NL"})
    IN IF pieces[Len(pieces)] = <<>> THEN Take(pieces, Len(pieces) - 1) ELSE pieces

\* char::to_ascii_lowercase
LowerChar(ch) ==
    CASE ch = "A" -> "a"
      [] ch = "L" -> "l"
      [] ch = "F" -> "f"
      [] ch = "I" -> "i"
      [] ch = "E" -> "e"
      [] OTHER -> ch

ToAsciiLowercase(s) == [i \in DOMAIN s |-> LowerChar(s[i])]

(***************************************************************************)
(* AnalyzerConfig::enabled (config.rs).                                    *)
(***************************************************************************)

\* The longest rule name and configuration key enumerated.
MaxNameLen == 4

NameChars == {"a", "/"}

RuleNames == NonEmptySeqsUpTo(NameChars, MaxNameLen)

ConfigKeys == SeqsUpTo(NameChars, MaxNameLen)

\* The rules maps enumerated: no entry, one entry, or two entries (such as
\* a group toggle and a more specific one).
ConfigMaps ==
    {[k \in {k1, k2} |-> IF k = k1 THEN b1 ELSE b2] :
        k1 \in ConfigKeys, k2 \in ConfigKeys, b1 \in BOOLEAN, b2 \in BOOLEAN}
    \cup {[k \in {} |-> TRUE]}

\* Mutant: the name is cut at its first '/' instead of its last one.
TruncateAtFirstSlash(candidate) ==
    Take(candidate, Min({i \in DOMAIN candidate : candidate[i] = "/"}) - 1)

\* `candidate = &candidate[..idx]` with idx = candidate.rfind('/')
TruncateAtLastSlash(candidate) == Take(candidate, RFind(candidate, "/") - 1)

\* The loop of enabled(), one iteration per unfolding.
RECURSIVE EnabledFrom(_, _)
EnabledFrom(rules, candidate) ==
    IF candidate \in DOMAIN rules THEN rules[candidate]
    ELSE IF RFind(candidate, "/") # 0
         THEN EnabledFrom(rules, TruncateAtLastSlash(candidate))
         ELSE TRUE

Enabled(rules, rule_name) == EnabledFrom(rules, rule_name)

ConfigInit ==
    /\ cRules \in ConfigMaps
    /\ cName \in RuleNames
    /\ cPc = "call"
    /\ cResult = FALSE

ConfigIdle ==
    /\ cRules = [k \in {} |-> TRUE]
    /\ cName = <<>>
    /\ cPc = "idle"
    /\ cResult = FALSE

CallEnabled ==
    /\ cPc = "call"
    /\ cResult' = Enabled(cRules, cName)
    /\ cPc' = "done"
    /\ UNCHANGED <<cRules, cName>>
    /\ ConfigFrame

ConfigNext == CallEnabled

(***************************************************************************)
(* The text-edit engine (fix.rs).  A source is a sequence of bytes: "x" is *)
(* an ASCII byte, "NL" the newline byte, and "LEAD" "CONT" the lead and  *)
(* the continuation byte of a two-byte UTF-8 character.                    *)
(***************************************************************************)

\* The longest source and the longest edit list enumerated.
MaxSourceLen == 3
MaxEdits == 2

SourceBytes == {"x", "NL", "LEAD", "CONT"}

\* A &str holds valid UTF-8: each lead byte is followed by its continuation
\* byte and a continuation byte only follows a lead byte.
IsValidUtf8(bytes) ==
    /\ \A i \in DOMAIN bytes :
        bytes[i] = "LEAD" => (i < Len(bytes) /\ bytes[i + 1] = "CONT")
    /\ \A i \in DOMAIN bytes :
        bytes[i] = "CONT" => (i > 1 /\ bytes[i - 1] = "LEAD")

Sources == {b \in SeqsUpTo(SourceBytes, MaxSourceLen) : IsValidUtf8(b)}

Replacements == {<<>>, <<"r">>}

\* TextEdit::new: `assert!(start <= end)`.
TextEdit(start, end, replacement) ==
    [start |-> start, end |-> end, replacement |-> replacement]

\* The edits a caller can build for a source, offsets one past its end
\* included.
EditsFor(source) ==
    UNION {{TextEdit(st, en, r) : en \in st..(Len(source) + 1), r \in Replacements} :
            st \in 0..(Len(source) + 1)}

\* str::is_char_boundary, for a 0-based byte offset.
IsCharBoundary(source, idx) ==
    \/ idx = 0
    \/ idx = Len(source)
    \/ idx < Len(source) /\ source[idx + 1] # "CONT"

\* Whether &source[from..to] is a slice; it aborts otherwise.
SliceOk(source, from, to) ==
    /\ from <= to
    /\ to <= Len(source)
    /\ IsCharBoundary(source, from)
    /\ IsCharBoundary(source, to)

\* &source[from..to], 0-based and end-exclusive.
Slice(source, from, to) == SubSeq(source, from + 1, to)

\* The comparator of sort_by: (start, end) ascending.
EditLessEq(a, b) ==
    \/ a.start < b.start
    \/ a.start = b.start /\ a.end <= b.end

\* sort_by is stable: an edit goes after every edit that is not greater.
RECURSIVE InsertSorted(_, _)
InsertSorted(sorted, edit) ==
    IF sorted = <<>> THEN <<edit>>
    ELSE IF EditLessEq(Head(sorted), edit)
         THEN <<Head(sorted)>> \o InsertSorted(Tail(sorted), edit)
         ELSE <<edit>> \o sorted

RECURSIVE SortFrom(_, _)
SortFrom(sorted, rest) ==
    IF rest = <<>> THEN sorted
    ELSE SortFrom(InsertSorted(sorted, Head(rest)), Tail(rest))

\* Mutant: the edits are applied in the order given.
SortEditsOmitted(edits) == edits

\* `sorted.sort_by(...)`
SortEdits(edits) == SortFrom(<<>>, edits)

\* Mutant: an edit that starts exactly at the cursor is rejected too.
OverlapsCursorOrTouches(cursor, edit) == cursor >= edit.start

\* `if cursor > edit.start { panic!(...) }`
OverlapsCursor(cursor, edit) == cursor > edit.start

Aborted == [panicked |-> TRUE, text |-> <<>>]

Returned(text) == [panicked |-> FALSE, text |-> text]

\* The loop over the sorted edits and the final push of the rest.
RECURSIVE ApplyFrom(_, _, _, _)
ApplyFrom(source, sorted, cursor, result) ==
    IF sorted = <<>>
    THEN IF SliceOk(source, cursor, Len(source))
         THEN Returned(result \o Slice(source, cursor, Len(source)))
         ELSE Aborted
    ELSE LET edit == Head(sorted)
         IN IF OverlapsCursor(cursor, edit) THEN Aborted
            ELSE IF ~SliceOk(source, cursor, edit.start) THEN Aborted
            ELSE ApplyFrom(source, Tail(sorted), edit.end,
                           result \o Slice(source, cursor, edit.start)
                                  \o edit.replacement)

ApplyTextEdits(source, edits) == ApplyFrom(source, SortEdits(edits), 0, <<>>)

FixInit ==
    /\ fSource \in Sources
    /\ \E n \in 0..MaxEdits : fEdits \in [1..n -> EditsFor(fSource)]
    /\ fPc = "call"
    /\ fResult = Aborted

FixIdle ==
    /\ fSource = <<>>
    /\ fEdits = <<>>
    /\ fPc = "idle"
    /\ fResult = Aborted

CallApplyTextEdits ==
    /\ fPc = "call"
    /\ fResult' = ApplyTextEdits(fSource, fEdits)
    /\ fPc' = "done"
    /\ UNCHANGED <<fSource, fEdits>>
    /\ FixFrame

FixNext == CallApplyTextEdits

(***************************************************************************)
(* IgnoreState (ignore.rs).  In a source text "DIR" stands for the text    *)
(* php-checker-ignore and "-file" for the text -file that turns it into    *)
(* the file-level marker; every other element is one character.            *)
(***************************************************************************)

DIRECTIVE == <<"DIR">>

FILE_DIRECTIVE == <<"DIR", "-file">>

CommentMarkers == {<<"/", "/">>, <<"/", "*">>, <<"#">>, <<"*", "/">>}

\* The double quote, the single quote and the backtick.
Quotes == {"DQUOTE", "SQUOTE", "BQUOTE"}

Wildcards == {<<"*">>, <<"a", "l", "l">>, <<"f", "i", "l", "e">>}

DefaultIgnoreState == [ignore_all |-> FALSE, patterns |-> <<>>]

IgnoreAll(state) == [state EXCEPT !.ignore_all = TRUE]

\* Mutant: the text after the marker is not cut at a comment marker.
CommentTailKept(value) == TrimEnd(value)

trim_comment_tail(value) ==
    LET found == {Find(value, marker) : marker \in CommentMarkers} \ {-1}
        limit == IF found = {} THEN Len(value) ELSE Min(found)
    IN TrimEnd(Take(value, limit))

\* The body of the token loop: trim, drop the empty token, lower-case.
NormalizeToken(token) ==
    ToAsciiLowercase(TrimEndMatches(TrimMatches(Trim(token), Quotes), {"/"}))

\* `for token in args.split(...)`, with its `continue` and its `break`.
RECURSIVE CollectTokens(_, _)
CollectTokens(state, tokens) ==
    IF tokens = <<>> THEN state
    ELSE LET normalized == NormalizeToken(Head(tokens))
         IN IF normalized = <<>> THEN CollectTokens(state, Tail(tokens))
            ELSE IF normalized \in Wildcards THEN IgnoreAll(state)
            ELSE CollectTokens(
                    [state EXCEPT !.patterns = Append(@, normalized)],
                    Tail(tokens))

apply_args(state, tail) ==
    IF state.ignore_all THEN state
    ELSE LET args == TrimStart(trim_comment_tail(tail))
         IN IF args = <<>> THEN IgnoreAll(state)
            ELSE LET stripped ==
                        IF Head(args) = ":" THEN TrimStart(Tail(args)) ELSE args
                 IN IF stripped = <<>> THEN IgnoreAll(state)
                    ELSE CollectTokens(state, SplitOn(stripped, {","} \cup Whitespace))

collect_from_line(state, line) ==
    IF Find(line, FILE_DIRECTIVE) # -1
    THEN apply_args(IgnoreAll(state),
                    Drop(line, Find(line, FILE_DIRECTIVE) + Len(FILE_DIRECTIVE)))
    ELSE IF Find(line, DIRECTIVE) # -1
         THEN apply_args(state, Drop(line, Find(line, DIRECTIVE) + Len(DIRECTIVE)))
         ELSE state

\* `for line in source.lines()`, with its `break` once ignore_all is set.
RECURSIVE CollectLines(_, _)
CollectLines(state, lines) ==
    IF lines = <<>> \/ state.ignore_all THEN state
    ELSE CollectLines(collect_from_line(state, Head(lines)), Tail(lines))

from_source(source) == CollectLines(DefaultIgnoreState, Lines(source))

\* Mutant: a pattern suppresses every rule name it is a textual prefix of.
PatternMatchesAnyPrefix(rule_lower, pattern) == StartsWith(rule_lower, pattern)

\* One iteration of the loop of should_ignore.
PatternMatches(rule_lower, pattern) ==
    \/ rule_lower = pattern
    \/ /\ StartsWith(rule_lower, pattern)
       /\ Len(rule_lower) > Len(pattern)
       /\ rule_lower[Len(pattern) + 1] = "/"

should_ignore(state, rule_name) ==
    \/ state.ignore_all
    \/ \E k \in DOMAIN state.patterns :
            PatternMatches(ToAsciiLowercase(rule_name), state.patterns[k])

ignores_everything(state) == state.ignore_all

\* The longest argument text after a marker that is enumerated in full.
MaxTailLen == 3

TailChars == {":", " ", ",", "a", "/", "A"}

\* Argument texts beyond the enumerated ones: wildcards, quotes, comment
\* terminators.
LongTails ==
    {<<":", " ", "a", "l", "l">>, <<" ", "F", "i", "l", "e">>, <<":", " ", "*">>,
     <<":", " ", "a", " ", "*", "/">>, <<":", "SQUOTE", "a", "/", "a", "SQUOTE">>,
     <<":", " ", "a", " ", "/", "/", " ", "a", "a">>, <<" ", "*", "/">>,
     <<":", "a", "l">>, <<":", "a", "/", "a", "l", "l">>}

Tails == SeqsUpTo(TailChars, MaxTailLen) \cup LongTails

CommentOpeners == {<<"/", "/", " ">>, <<"/", "*", " ">>, <<"x", " ", "#">>}

IgnoreLines ==
    {opener \o marker \o tail :
        opener \in CommentOpeners, marker \in {DIRECTIVE, FILE_DIRECTIVE}, tail \in Tails}

\* The lines put in front of an enumerated line: code, a group pattern, a
\* file-level marker, a rule-level wildcard.
LeadingLines ==
    {<<"x">>, <<"/", "/", " ", "DIR", ":", " ", "a", "a">>,
     <<"/", "/", " ", "DIR", "-file">>, <<"/", "/", " ", "DIR", ":", " ", "*">>}

IgnoreSources ==
    {line \o <<"NL">> : line \in IgnoreLines}
    \cup {first \o <<"NL">> \o line : first \in LeadingLines, line \in IgnoreLines}

QueryNames == NonEmptySeqsUpTo({"a", "/"}, MaxNameLen) \cup {<<"A", "/", "a">>}

IgnoreInit ==
    /\ iSource \in IgnoreSources
    /\ iState = DefaultIgnoreState
    /\ iPc = "parse"
    /\ iRule = <<>>
    /\ iAnswer = FALSE

IgnoreIdle ==
    /\ iSource = <<>>
    /\ iState = DefaultIgnoreState
    /\ iPc = "idle"
    /\ iRule = <<>>
    /\ iAnswer = FALSE

CallFromSource ==
    /\ iPc = "parse"
    /\ iState' = from_source(iSource)
    /\ iPc' = "parsed"
    /\ UNCHANGED <<iSource, iRule, iAnswer>>
    /\ IgnoreFrame

CallShouldIgnore ==
    /\ iPc = "parsed"
    /\ \E rule_name \in QueryNames :
        /\ iRule' = rule_name
        /\ iAnswer' = should_ignore(iState, rule_name)
    /\ iPc' = "asked"
    /\ UNCHANGED <<iSource, iState>>
    /\ IgnoreFrame

IgnoreNext == CallFromSource \/ CallShouldIgnore

(***************************************************************************)
(* covering_line_range (fix.rs): offsets are 0-based.                      *)
(***************************************************************************)

line_start(source, idx) == RFind(Take(source, Min({idx, Len(source)})), "NL")

line_end(source, idx) ==
    LET pos == Min({idx, Len(source)})
        newlines == {j \in (pos + 1)..Len(source) : source[j] = "NL"}
    IN IF newlines = {} THEN Len(source) ELSE Min(newlines)

covering_line_range(source, start, end) ==
    <<line_start(source, start), line_end(source, end)>>

(***************************************************************************)
(* TestConfig (test_config.rs).  "PCT" stands for the marker               *)
(* php-checker-test: and "ONLY=" and "SKIP=" for only-rules= and           *)
(* skip-rules=.                                                            *)
(***************************************************************************)

TestScanLines == 20

TEST_MARKER == "PCT"

\* "// php-checker-test:"
TEST_PREFIX == <<"/", "/", " ", TEST_MARKER>>

ONLY_RULES == <<"ONLY=">>

SKIP_RULES == <<"SKIP=">>

DefaultTestConfig == [only_set |-> FALSE, only_rules |-> <<>>, skip_rules |-> <<>>]

\* split(','), trim, drop the empty names
RECURSIVE TrimmedNames(_)
TrimmedNames(pieces) ==
    IF pieces = <<>> THEN <<>>
    ELSE IF Trim(Head(pieces)) = <<>> THEN TrimmedNames(Tail(pieces))
    ELSE <<Trim(Head(pieces))>> \o TrimmedNames(Tail(pieces))

parse_directive(directive, config) ==
    IF StartsWith(directive, ONLY_RULES)
    THEN LET rules == TrimmedNames(SplitOn(Drop(directive, Len(ONLY_RULES)), {","}))
         IN IF rules # <<>>
            THEN [config EXCEPT !.only_set = TRUE, !.only_rules = rules]
            ELSE config
    ELSE IF StartsWith(directive, SKIP_RULES)
         THEN [config EXCEPT !.skip_rules =
                    @ \o TrimmedNames(SplitOn(Drop(directive, Len(SKIP_RULES)), {","}))]
         ELSE config

RECURSIVE TestConfigFromLines(_, _)
TestConfigFromLines(config, lines) ==
    IF lines = <<>> THEN config
    ELSE LET line == Trim(Head(lines))
         IN TestConfigFromLines(
                IF StartsWith(line, TEST_PREFIX)
                THEN parse_directive(Trim(Drop(line, Len(TEST_PREFIX))), config)
                ELSE config,
                Tail(lines))

TestConfigFromSource(source) ==
    LET lines == Lines(source)
    IN TestConfigFromLines(DefaultTestConfig,
                           Take(lines, Min({TestScanLines, Len(lines)})))

Contains(names, name) == \E k \in DOMAIN names : names[k] = name

\* Mutant: the allow-list is consulted before the skip list.
AllowListFirst(config, rule_name) ==
    IF config.only_set THEN Contains(config.only_rules, rule_name)
    ELSE ~Contains(config.skip_rules, rule_name)

should_run_rule(config, rule_name) ==
    IF Contains(config.skip_rules, rule_name) THEN FALSE
    ELSE IF config.only_set THEN Contains(config.only_rules, rule_name)
    ELSE TRUE

is_test_file(config) == config.only_set \/ config.skip_rules # <<>>

(***************************************************************************)
(* The rule registry and dispatch (analyzer.rs).  Three rules of the       *)
(* registry, in its order; a rule name is written with one letter for the  *)
(* group and one for the rule.  In a file "UD" is a statement reading an   *)
(* undefined variable, "UV" a statement assigning a variable never read,   *)
(* "UU" a use declaration of one unused clause and "UM" a use declaration  *)
(* of several clauses with an unused one.                                  *)
(***************************************************************************)

\* sanity/undefined_variable
UndefinedVariableRule == <<"s", "/", "d">>

\* cleanup/unused_variable
UnusedVariableRule == <<"c", "/", "v">>

\* cleanup/unused_use
UnusedUseRule == <<"c", "/", "u">>

Registry == <<UndefinedVariableRule, UnusedVariableRule, UnusedUseRule>>

\* The configurations the analyzer is built with: none, a group switched
\* off, one rule switched off.
AnalyzerConfigs ==
    {[k \in {} |-> TRUE],
     [k \in {<<"c">>} |-> FALSE],
     [k \in {UnusedVariableRule} |-> FALSE]}

\* rules.retain(|rule| config.enabled(rule.name()))
AnalyzerNew(config) == SelectSeq(Registry, LAMBDA rule : Enabled(config, rule))

\* The 0-based offsets of the statements of the given kinds, in file order.
RECURSIVE OffsetsFrom(_, _, _)
OffsetsFrom(source, kinds, i) ==
    IF i > Len(source) THEN <<>>
    ELSE (IF source[i] \in kinds THEN <<i - 1>> ELSE <<>>)
            \o OffsetsFrom(source, kinds, i + 1)

Offsets(source, kinds) == OffsetsFrom(source, kinds, 1)

\* What each rule looks for, and what its fix step removes.
Reported(rule) ==
    CASE rule = UndefinedVariableRule -> {"UD"}
      [] rule = UnusedVariableRule -> {"UV"}
      [] rule = UnusedUseRule -> {"UU", "UM"}

Fixed(rule) ==
    CASE rule = UndefinedVariableRule -> {}
      [] rule = UnusedVariableRule -> {"UV"}
      [] rule = UnusedUseRule -> {"UU"}

\* rule.run: one diagnostic per statement found, not yet tagged.
RuleRun(rule, source) ==
    LET found == Offsets(source, Reported(rule))
    IN [k \in DOMAIN found |-> [rule_name |-> <<>>, start |-> found[k]]]

\* rule.fix: the line of each statement found is removed.
RuleFix(rule, source) ==
    LET found == Offsets(source, Fixed(rule))
    IN [k \in DOMAIN found |->
            LET range == covering_line_range(source, found[k], found[k] + 1)
            IN TextEdit(range[1], range[2], <<>>)]

\* Mutant: dispatch goes on to the rules of a file that ignores everything.
EarlyReturnOmitted(ignore_state) == FALSE

\* `if ignore_state.ignores_everything() { return Vec::new(); }`
EarlyReturn(ignore_state) == ignores_everything(ignore_state)

\* The loop over the rules: the diagnostics, tagged, and the rules run.
RECURSIVE RunRules(_, _, _)
RunRules(rules, test_config, source) ==
    IF rules = <<>> THEN [diagnostics |-> <<>>, ran |-> <<>>]
    ELSE LET rule_name == Head(rules)
             rest == RunRules(Tail(rules), test_config, source)
         IN IF is_test_file(test_config) /\ ~should_run_rule(test_config, rule_name)
            THEN rest
            ELSE LET rule_diagnostics == RuleRun(rule_name, source)
                     tagged == [k \in DOMAIN rule_diagnostics |->
                                  [rule_diagnostics[k] EXCEPT !.rule_name = rule_name]]
                 IN [diagnostics |-> tagged \o rest.diagnostics,
                     ran |-> <<rule_name>> \o rest.ran]

NotIgnored(ignore_state, diag) ==
    diag.rule_name = <<>> \/ ~should_ignore(ignore_state, diag.rule_name)

collect_diagnostics_with_rules(rules, source) ==
    LET ignore_state == from_source(source)
    IN IF EarlyReturn(ignore_state)
       THEN [diagnostics |-> <<>>, ran |-> <<>>, test_computed |-> FALSE]
       ELSE LET test_config == TestConfigFromSource(source)
                all == RunRules(rules, test_config, source)
            IN [diagnostics |->
                    SelectSeq(all.diagnostics,
                              LAMBDA diag : NotIgnored(ignore_state, diag)),
                ran |-> all.ran,
                test_computed |-> TRUE]

\* The edits of one file: every rule's fix, in registry order.
RECURSIVE fix_files(_, _)
fix_files(rules, source) ==
    IF rules = <<>> THEN <<>>
    ELSE RuleFix(Head(rules), source) \o fix_files(Tail(rules), source)

MaxLines == 3

\* The test-override lines: cleanup/unused_variable is skipped; only
\* cleanup/unused_variable and sanity/undefined_variable are allowed.
SkipLine == TEST_PREFIX \o <<" ">> \o SKIP_RULES \o UnusedVariableRule

OnlyLine ==
    TEST_PREFIX \o <<" ">> \o ONLY_RULES
        \o UnusedVariableRule \o <<",">> \o UndefinedVariableRule

FileLines ==
    {<<"x">>, <<"UD">>, <<"UV">>, <<"UU">>, <<"UM">>,
     <<"/", "/", " ", "DIR", "-file">>,
     <<"/", "/", " ", "DIR", "-file", ":", " ", "c">>,
     <<"/", "/", " ", "DIR", ":", " ", "c">>,
     <<"/", "/", " ", "DIR", ":", " ", "c", "/", "v">>,
     SkipLine, OnlyLine}

RECURSIVE JoinLines(_)
JoinLines(lines) ==
    IF lines = <<>> THEN <<>>
    ELSE IF Len(lines) = 1 THEN Head(lines)
    ELSE Head(lines) \o <<"NL">> \o JoinLines(Tail(lines))

\* Files of up to MaxLines lines, with and without a final newline.
ShortFiles ==
    {JoinLines(lines) \o ending :
        lines \in UNION {[1..n -> FileLines] : n \in 1..MaxLines},
        ending \in {<<>>, <<"NL">>}}

\* Files whose last line is the last one scanned for a test override, or the
\* first one that is not.
PaddedFiles ==
    {JoinLines([k \in 1..n |-> <<"UV">>] \o <<line>>) :
        n \in {TestScanLines - 1, TestScanLines}, line \in FileLines}

\* Lines that hold two statements: two assignments of never-read variables,
\* two unused imports, one of each, and an assignment next to other code.
SameLineStatements ==
    {<<"UV", "UV">>, <<"UU", "UU">>, <<"UV", "UU">>, <<"UV", "x">>}

SameLineFiles ==
    {before \o line \o ending :
        before \in {<<>>, <<"x", "NL">>},
        line \in SameLineStatements,
        ending \in {<<>>, <<"NL">>}}

Files == ShortFiles \cup PaddedFiles \cup SameLineFiles

AnalyzerInit ==
    /\ aSource \in Files
    /\ \E config \in AnalyzerConfigs : aRules = AnalyzerNew(config)
    /\ aPc = "start"
    /\ aDiagnostics = <<>>
    /\ aRan = <<>>
    /\ aTestComputed = FALSE
    /\ aEdits = <<>>
    /\ aPatched = Returned(<<>>)

AnalyzerIdle ==
    /\ aSource = <<>>
    /\ aRules = <<>>
    /\ aPc = "idle"
    /\ aDiagnostics = <<>>
    /\ aRan = <<>>
    /\ aTestComputed = FALSE
    /\ aEdits = <<>>
    /\ aPatched = Returned(<<>>)

AnalyseFile ==
    /\ aPc = "start"
    /\ LET result == collect_diagnostics_with_rules(aRules, aSource)
       IN /\ aDiagnostics' = result.diagnostics
          /\ aRan' = result.ran
          /\ aTestComputed' = result.test_computed
    /\ aPc' = "analysed"
    /\ UNCHANGED <<aSource, aRules, aEdits, aPatched>>
    /\ AnalyzerFrame

FixFiles ==
    /\ aPc = "analysed"
    /\ aEdits' = fix_files(aRules, aSource)
    /\ aPc' = "fixed"
    /\ UNCHANGED <<aSource, aRules, aDiagnostics, aRan, aTestComputed, aPatched>>
    /\ AnalyzerFrame

\* The consumer of the fix output patches the text it read.
ApplyFixes ==
    /\ aPc = "fixed"
    /\ aPatched' = ApplyTextEdits(aSource, aEdits)
    /\ aPc' = "applied"
    /\ UNCHANGED <<aSource, aRules, aDiagnostics, aRan, aTestComputed, aEdits>>
    /\ AnalyzerFrame

AnalyzerNext == AnalyseFile \/ FixFiles \/ ApplyFixes

(***************************************************************************)
(* File metadata and symbol resolution (project.rs).  A name is a sequence *)
(* of one-letter segments separated by "BS", the namespace separator.      *)
(***************************************************************************)

MaxSegments == 2
MaxDeclarations == 2

Segments == {"f", "a", "n"}

RECURSIVE JoinSegments(_)
JoinSegments(segments) ==
    IF segments = <<>> THEN <<>>
    ELSE IF Len(segments) = 1 THEN Head(segments)
    ELSE Head(segments) \o <<"BS">> \o JoinSegments(Tail(segments))

\* The names written at call sites: relative, and with a leading separator.
CalledNames ==
    LET relative ==
            {JoinSegments([k \in DOMAIN segs |-> <<segs[k]>>]) :
                segs \in NonEmptySeqsUpTo(Segments, MaxSegments)}
    IN relative \cup {<<"BS">> \o name : name \in relative}

\* The targets of use clauses.
UseTargets == {<<"m">>, <<"m", "BS", "f">>}

\* One use clause: its alias and target; a declaration has one or two.
UseClauses == [alias : {"a", "f"}, target : UseTargets]

UseDeclarations == [1..1 -> UseClauses] \cup [1..2 -> UseClauses]

\* The clauses in document order, each with the place where it was written:
\* clause k of the file (counted from 0) spans the bytes [2k, 2k + 1), and
\* its alias node is the k-th.
RECURSIVE ClausesFrom(_, _)
ClausesFrom(decls, seen) ==
    IF decls = <<>> THEN <<>>
    ELSE LET decl == Head(decls)
         IN [k \in DOMAIN decl |->
                [alias |-> decl[k].alias,
                 target |-> decl[k].target,
                 span |-> seen + k - 1,
                 clause_start |-> 2 * (seen + k - 1),
                 clause_end |-> 2 * (seen + k - 1) + 1,
                 declaration_has_multiple_clauses |-> Len(decl) > 1]]
            \o ClausesFrom(Tail(decls), seen + Len(decl))

UseInfo(clause) ==
    [target |-> clause.target,
     span |-> clause.span,
     clause_start |-> clause.clause_start,
     clause_end |-> clause.clause_end,
     declaration_has_multiple_clauses |-> clause.declaration_has_multiple_clauses]

\* HashMap::insert: the value of an alias already present is replaced.
MapInsert(map, key, value) ==
    [k \in DOMAIN map \cup {key} |-> IF k = key THEN value ELSE map[k]]

NoUses == [k \in {} |-> <<>>]

RECURSIVE InsertClauses(_, _)
InsertClauses(uses, clauses) ==
    IF clauses = <<>> THEN uses
    ELSE InsertClauses(MapInsert(uses, Head(clauses).alias, UseInfo(Head(clauses))),
                       Tail(clauses))

collect_use_aliases(decls) == InsertClauses(NoUses, ClausesFrom(decls, 0))

\* The scopes a file can have: no namespace or the namespace n, and the
\* alias maps of a file with no, one or two use clauses.
Namespaces == {<<>>, <<"n">>}

ScopeUses ==
    {NoUses}
    \cup {collect_use_aliases(<<decl>>) : decl \in UseDeclarations}

FileScopes == [namespace : Namespaces, uses : ScopeUses]

\* The fully-qualified names that may be registered, each by two files.
IndexedNames ==
    {<<"f">>, <<"m">>, <<"m", "BS", "f">>, <<"n", "BS", "f">>,
     <<"n", "BS", "a">>, <<"a", "BS", "f">>}

FunctionSymbol(fq_name, file) == [fq_name |-> fq_name, file |-> file]

FunctionIndexes ==
    {[name \in registered |->
        <<FunctionSymbol(name, "p1"), FunctionSymbol(name, "p2")>>] :
        registered \in SUBSET IndexedNames}

\* scope.uses.get(first): aliases are single segments.
HasAlias(uses, segment) == Len(segment) = 1 /\ segment[1] \in DOMAIN uses

\* The candidate built from the alias of the first segment, if there is one.
AliasCandidate(name, scope) ==
    LET segments == SplitOn(TrimStartMatches(name, {"BS"}), {"BS"})
        first == segments[1]
        remainder == JoinSegments(Tail(segments))
    IN IF ~HasAlias(scope.uses, first) THEN <<>>
       ELSE IF remainder = <<>> THEN <<scope.uses[first[1]].target>>
       ELSE <<scope.uses[first[1]].target \o <<"BS">> \o remainder>>

\* The candidate in the namespace of the file, if it has one.
NamespaceCandidate(name, scope) ==
    IF scope.namespace # <<>>
    THEN <<scope.namespace \o <<"BS">> \o TrimStartMatches(name, {"BS"})>>
    ELSE <<>>

\* Mutant: the name in the current namespace is tried before the alias.
NamespaceBeforeAlias(name, scope) ==
    LET normalized == TrimStartMatches(name, {"BS"})
    IN IF Head(name) = "BS"
       THEN <<normalized, normalized>>
       ELSE NamespaceCandidate(name, scope) \o AliasCandidate(name, scope)
                \o <<normalized>>

candidate_function_names(name, scope) ==
    LET normalized == TrimStartMatches(name, {"BS"})
    IN IF Head(name) = "BS"
       THEN <<normalized, normalized>>
       ELSE AliasCandidate(name, scope) \o NamespaceCandidate(name, scope)
                \o <<normalized>>

\* The loop over the candidates: the first symbol of the first one indexed.
RECURSIVE FirstIndexed(_, _)
FirstIndexed(index, candidates) ==
    IF candidates = <<>> THEN <<>>
    ELSE IF Head(candidates) \in DOMAIN index /\ index[Head(candidates)] # <<>>
         THEN <<index[Head(candidates)][1]>>
         ELSE FirstIndexed(index, Tail(candidates))

\* scope is <<>> when scope_for finds no metadata for the file.
resolve_function_symbol(index, scope, name) ==
    IF scope = <<>> THEN <<>>
    ELSE FirstIndexed(index, candidate_function_names(name, scope[1]))

ProjectIdle ==
    /\ pDecls = <<>>
    /\ pUses = NoUses
    /\ pScope = <<>>
    /\ pIndex = NoUses
    /\ pName = <<>>
    /\ pPc = "idle"
    /\ pResult = <<>>

AliasesInit ==
    /\ pDecls \in UNION {[1..n -> UseDeclarations] : n \in 0..MaxDeclarations}
    /\ pUses = NoUses
    /\ pScope = <<>>
    /\ pIndex = NoUses
    /\ pName = <<>>
    /\ pPc = "collect"
    /\ pResult = <<>>

CallCollectUseAliases ==
    /\ pPc = "collect"
    /\ pUses' = collect_use_aliases(pDecls)
    /\ pPc' = "collected"
    /\ UNCHANGED <<pDecls, pScope, pIndex, pName, pResult>>
    /\ ProjectFrame

AliasesNext == CallCollectUseAliases

ResolveInit ==
    /\ pDecls = <<>>
    /\ pUses = NoUses
    /\ pScope \in {<<>>} \cup {<<scope>> : scope \in FileScopes}
    /\ pIndex \in FunctionIndexes
    /\ pName \in CalledNames
    /\ pPc = "resolve"
    /\ pResult = <<>>

CallResolveFunctionSymbol ==
    /\ pPc = "resolve"
    /\ pResult' = resolve_function_symbol(pIndex, pScope, pName)
    /\ pPc' = "resolved"
    /\ UNCHANGED <<pDecls, pUses, pScope, pIndex, pName>>
    /\ ProjectFrame

ResolveNext == CallResolveFunctionSymbol

(***************************************************************************)
(* Whole-root analysis (analyzer.rs): parse_files fills the Project        *)
(* Context with one worker per path, then the rules run on every parsed    *)
(* file and the PSR-4 namespace check is appended.  Paths are numbered     *)
(* from 1 and lie directly under the root.  In a file "NS" declares the    *)
(* namespace n and "FN" the function f.                                    *)
(***************************************************************************)

MaxFiles == 2

\* The files given to the analysis: without violation, with a namespace
\* that does not match the directory and an unused variable, the same with a
\* file-level ignore marker, the namespace alone with the psr4 group
\* ignored, and a file that cannot be read.
CleanFile == [readable |-> TRUE, source |-> <<"FN">>]

ViolatingFile == [readable |-> TRUE, source |-> <<"NS", "NL", "FN", "NL", "UV">>]

IgnoredFile ==
    [readable |-> TRUE,
     source |-> <<"/", "/", " ", "DIR", "-file", "NL", "NS", "NL", "UV">>]

GroupIgnoredFile ==
    [readable |-> TRUE,
     source |-> <<"/", "/", " ", "DIR", ":", " ", "p", "NL", "NS">>]

UnreadableFile == [readable |-> FALSE, source |-> <<>>]

InputFiles == {CleanFile, ViolatingFile, IgnoredFile, GroupIgnoredFile, UnreadableFile}

\* psr4/namespace and its group
PSR4_RULE_NAME == <<"p", "/", "n">>

Psr4Group == <<"p">>

Psr4RuleMaps ==
    {[k \in {} |-> TRUE],
     [k \in {Psr4Group} |-> FALSE],
     [k \in {Psr4Group, PSR4_RULE_NAME} |-> k = PSR4_RULE_NAME],
     [k \in {Psr4Group, PSR4_RULE_NAME} |-> k = Psr4Group],
     [k \in {PSR4_RULE_NAME} |-> TRUE]}

RootConfigs == [psr4_enabled : BOOLEAN, rules : Psr4RuleMaps]

EmptyContext ==
    [sources |-> [k \in {} |-> <<>>],
     file_scopes |-> [k \in {} |-> <<>>],
     function_symbols |-> [k \in {} |-> <<>>]]

collect_namespace(source) ==
    IF \E i \in DOMAIN source : source[i] = "NS" THEN <<"n">> ELSE <<>>

qualify_name(namespace, name) ==
    IF namespace # <<>> THEN namespace \o <<"BS">> \o name ELSE name

collect_function_symbols(path, source, namespace) ==
    LET found == Offsets(source, {"FN"})
    IN [k \in DOMAIN found |-> FunctionSymbol(qualify_name(namespace, <<"f">>), path)]

collect_file_metadata(path, source) ==
    [namespace |-> collect_namespace(source),
     uses |-> NoUses,
     symbols |-> collect_function_symbols(path, source, collect_namespace(source))]

\* The three parts of insert_with_metadata.
RECURSIVE PushSymbols(_, _)
PushSymbols(function_symbols, symbols) ==
    IF symbols = <<>> THEN function_symbols
    ELSE LET symbol == Head(symbols)
             registered ==
                IF symbol.fq_name \in DOMAIN function_symbols
                THEN function_symbols[symbol.fq_name] ELSE <<>>
         IN PushSymbols(
                MapInsert(function_symbols, symbol.fq_name, Append(registered, symbol)),
                Tail(symbols))

InsertFileScope(file_scopes, path, metadata) ==
    MapInsert(file_scopes, path,
              [namespace |-> metadata.namespace,
               functions |-> metadata.symbols,
               uses |-> metadata.uses])

\* Mutant: the parsed source is not stored.
InsertSourceOmitted(sources, path, source) == sources

InsertSource(sources, path, source) == MapInsert(sources, path, source)

InputPaths == DOMAIN rFiles

WorkerFinished(path) == rWorker[path] \in {"done", "failed"}

\* Mutant: the results are collected while workers are still running.
JoinOmitted == \A path \in InputPaths : rWorker[path] # "start"

\* `.collect()`: every worker has returned its result.
AllWorkersFinished == \A path \in InputPaths : WorkerFinished(path)

\* The gate of run_namespace_checks.
NamespaceChecksEnabled(config) ==
    /\ config.psr4_enabled
    /\ Enabled(config.rules, Psr4Group)
    /\ Enabled(config.rules, PSR4_RULE_NAME)

\* The loop of run_namespace_checks over the parsed files, in the order the
\* context yields them; a file directly under the root is expected to
\* declare no namespace.
RECURSIVE NamespaceDiagnostics(_, _)
NamespaceDiagnostics(context, order) ==
    IF order = <<>> THEN <<>>
    ELSE LET path == Head(order)
             rest == NamespaceDiagnostics(context, Tail(order))
         IN IF path \notin DOMAIN context.file_scopes THEN rest
            ELSE IF context.file_scopes[path].namespace = <<>> THEN rest
            ELSE <<[file |-> path, rule_name |-> PSR4_RULE_NAME]>> \o rest

run_namespace_checks(context, order, config) ==
    IF ~NamespaceChecksEnabled(config) THEN <<>>
    ELSE NamespaceDiagnostics(context, order)

\* The diagnostics of one parsed file, each with the file it is about.
FileDiagnostics(rules, path, source) ==
    LET diags == collect_diagnostics_with_rules(rules, source).diagnostics
    IN [k \in DOMAIN diags |-> [file |-> path, rule_name |-> diags[k].rule_name]]

RECURSIVE ConcatInOrder(_, _)
ConcatInOrder(per_file, order) ==
    IF order = <<>> THEN <<>>
    ELSE per_file[Head(order)] \o ConcatInOrder(per_file, Tail(order))

\* The orders in which a HashMap may yield its keys.
Orders(keys) ==
    {order \in [1..Cardinality(keys) -> keys] :
        \A i, j \in DOMAIN order : i # j => order[i] # order[j]}

RootInit ==
    /\ rFiles \in UNION {[1..n -> InputFiles] : n \in 1..MaxFiles}
    /\ rConfig \in RootConfigs
    /\ rPc = "phase1"
    /\ rWorker = [path \in DOMAIN rFiles |-> "start"]
    /\ rLock = 0
    /\ rStrong = 1
    /\ rContext = EmptyContext
    /\ rOrder = <<>>
    /\ rAnalysed = {}
    /\ rFileDiags = [path \in DOMAIN rFiles |-> <<>>]
    /\ rPsr4Ran = FALSE
    /\ rOutput = <<>>

RootIdle ==
    /\ rFiles = <<>>
    /\ rConfig = [psr4_enabled |-> FALSE, rules |-> [k \in {} |-> TRUE]]
    /\ rPc = "idle"
    /\ rWorker = <<>>
    /\ rLock = 0
    /\ rStrong = 1
    /\ rContext = EmptyContext
    /\ rOrder = <<>>
    /\ rAnalysed = {}
    /\ rFileDiags = <<>>
    /\ rPsr4Ran = FALSE
    /\ rOutput = <<>>

\* A worker creates its parser and reads and parses its file.
ParseFile(path) ==
    /\ rWorker[path] = "start"
    /\ rWorker' = [rWorker EXCEPT ![path] =
                        IF rFiles[path].readable THEN "parsed" ELSE "failed"]
    /\ UNCHANGED <<rFiles, rConfig, rPc, rLock, rStrong, rContext, rOrder,
                   rAnalysed, rFileDiags, rPsr4Ran, rOutput>>
    /\ RootFrame

\* context.lock().unwrap()
LockContext(path) ==
    /\ rWorker[path] = "parsed"
    /\ rLock = 0
    /\ rLock' = path
    /\ rWorker' = [rWorker EXCEPT ![path] = "locked"]
    /\ UNCHANGED <<rFiles, rConfig, rPc, rStrong, rContext, rOrder,
                   rAnalysed, rFileDiags, rPsr4Ran, rOutput>>
    /\ RootFrame

\* insert_with_metadata, under the lock: the symbols, the scope, the source.
InsertSymbols(path) ==
    /\ rWorker[path] = "locked"
    /\ rContext' = [rContext EXCEPT !.function_symbols =
            PushSymbols(@, collect_file_metadata(path, rFiles[path].source).symbols)]
    /\ rWorker' = [rWorker EXCEPT ![path] = "symbols"]
    /\ UNCHANGED <<rFiles, rConfig, rPc, rLock, rStrong, rOrder,
                   rAnalysed, rFileDiags, rPsr4Ran, rOutput>>
    /\ RootFrame

InsertScope(path) ==
    /\ rWorker[path] = "symbols"
    /\ rContext' = [rContext EXCEPT !.file_scopes =
            InsertFileScope(@, path, collect_file_metadata(path, rFiles[path].source))]
    /\ rWorker' = [rWorker EXCEPT ![path] = "scoped"]
    /\ UNCHANGED <<rFiles, rConfig, rPc, rLock, rStrong, rOrder,
                   rAnalysed, rFileDiags, rPsr4Ran, rOutput>>
    /\ RootFrame

StoreSource(path) ==
    /\ rWorker[path] = "scoped"
    /\ rContext' = [rContext EXCEPT !.sources =
            InsertSource(@, path, rFiles[path].source)]
    /\ rWorker' = [rWorker EXCEPT ![path] = "stored"]
    /\ UNCHANGED <<rFiles, rConfig, rPc, rLock, rStrong, rOrder,
                   rAnalysed, rFileDiags, rPsr4Ran, rOutput>>
    /\ RootFrame

\* The guard is dropped and the worker returns Ok(()).
UnlockContext(path) ==
    /\ rWorker[path] = "stored"
    /\ rLock' = 0
    /\ rWorker' = [rWorker EXCEPT ![path] = "done"]
    /\ UNCHANGED <<rFiles, rConfig, rPc, rStrong, rContext, rOrder,
                   rAnalysed, rFileDiags, rPsr4Ran, rOutput>>
    /\ RootFrame

\* The end of parse_files: the results are collected, the first error is
\* returned, the accumulator is unwrapped.
FinishParseFiles ==
    /\ rPc = "phase1"
    /\ AllWorkersFinished
    /\ IF \E path \in InputPaths : rWorker[path] = "failed"
       THEN rPc' = "failed" /\ rOrder' = rOrder
       ELSE IF rStrong # 1
            THEN rPc' = "panicked" /\ rOrder' = rOrder
            ELSE rPc' = "phase2" /\ rOrder' \in Orders(DOMAIN rContext.sources)
    /\ UNCHANGED <<rFiles, rConfig, rWorker, rLock, rStrong, rContext,
                   rAnalysed, rFileDiags, rPsr4Ran, rOutput>>
    /\ RootFrame

\* One file's rule battery, on a worker of phase 2.
AnalyseParsed(path) ==
    /\ rPc = "phase2"
    /\ path \in DOMAIN rContext.sources
    /\ path \notin rAnalysed
    /\ rFileDiags' = [rFileDiags EXCEPT ![path] =
            FileDiagnostics(AnalyzerNew(rConfig.rules), path, rContext.sources[path])]
    /\ rAnalysed' = rAnalysed \cup {path}
    /\ UNCHANGED <<rFiles, rConfig, rPc, rWorker, rLock, rStrong, rContext,
                   rOrder, rPsr4Ran, rOutput>>
    /\ RootFrame

\* The diagnostics are collected, the PSR-4 check is appended, the run
\* returns.
FinishAnalysis ==
    /\ rPc = "phase2"
    /\ rAnalysed = DOMAIN rContext.sources
    /\ rPsr4Ran' = NamespaceChecksEnabled(rConfig)
    /\ rOutput' =
            ConcatInOrder(rFileDiags, rOrder)
                \o (IF rConfig.psr4_enabled
                    THEN run_namespace_checks(rContext, rOrder, rConfig)
                    ELSE <<>>)
    /\ rPc' = "returned"
    /\ UNCHANGED <<rFiles, rConfig, rWorker, rLock, rStrong, rContext, rOrder,
                   rAnalysed, rFileDiags>>
    /\ RootFrame

RootNext ==
    \/ \E path \in InputPaths :
        \/ ParseFile(path)
        \/ LockContext(path)
        \/ InsertSymbols(path)
        \/ InsertScope(path)
        \/ StoreSource(path)
        \/ UnlockContext(path)
        \/ AnalyseParsed(path)
    \/ FinishParseFiles
    \/ FinishAnalysis

(***************************************************************************)
(* covering_line_range called on its own (fix.rs).                         *)
(***************************************************************************)

MaxLineSourceLen == 4

LineSources == UNION {[1..n -> {"a", "NL"}] : n \in 0..MaxLineSourceLen}

LinesInit ==
    /\ lSource \in LineSources
    /\ lStart \in 0..Len(lSource)
    /\ lEnd \in lStart..Len(lSource)
    /\ lPc = "call"
    /\ lResult = <<>>

LinesIdle ==
    /\ lSource = <<>>
    /\ lStart = 0
    /\ lEnd = 0
    /\ lPc = "idle"
    /\ lResult = <<>>

CallCoveringLineRange ==
    /\ lPc = "call"
    /\ lResult' = covering_line_range(lSource, lStart, lEnd)
    /\ lPc' = "returned"
    /\ UNCHANGED <<lSource, lStart, lEnd>>
    /\ LinesFrame

LinesNext == CallCoveringLineRange

(***************************************************************************)
(* TestConfig::from_source called on its own (test_config.rs): one         *)
(* directive line after some lines of code.                                *)
(***************************************************************************)

\* What precedes the marker on its line: a line comment, the same indented,
\* a block comment, a '#' comment, a line comment without the space, code
\* and a trailing comment.
MarkerOpeners ==
    {<<"/", "/", " ">>, <<" ", "/", "/", " ">>, <<"/", "*", " ">>, <<"#", " ">>,
     <<"/", "/">>, <<"x", " ", "/", "/", " ">>}

Directives ==
    {SKIP_RULES \o <<"a">>, ONLY_RULES \o <<"a">>, ONLY_RULES \o <<"a", ",", "b">>,
     ONLY_RULES, <<"a">>}

DirectiveLines ==
    {opener \o <<TEST_MARKER>> \o gap \o directive \o closer :
        opener \in MarkerOpeners, gap \in {<<>>, <<" ">>},
        directive \in Directives, closer \in {<<>>, <<" ">>}}

LinesBefore == {0, 1, TestScanLines - 1, TestScanLines}

OverrideSources ==
    {JoinLines([k \in 1..n |-> <<"x">>] \o <<line>>) :
        n \in LinesBefore, line \in DirectiveLines}

OverrideInit ==
    /\ oSource \in OverrideSources
    /\ oPc = "parse"
    /\ oConfig = DefaultTestConfig

OverrideIdle ==
    /\ oSource = <<>>
    /\ oPc = "idle"
    /\ oConfig = DefaultTestConfig

CallTestConfigFromSource ==
    /\ oPc = "parse"
    /\ oConfig' = TestConfigFromSource(oSource)
    /\ oPc' = "parsed"
    /\ UNCHANGED oSource
    /\ OverrideFrame

OverrideNext == CallTestConfigFromSource

(***************************************************************************)
(* The scope walk of sanity/undefined_variable (undefined_variable.rs).    *)
(* The tree is given by its nodes in the order of the depth-first walk: a  *)
(* function_definition node, the end of its children, a variable_name      *)
(* node with its name and whether is_definition holds for it.  Other nodes *)
(* only pass the walk on to their children.                                *)
(***************************************************************************)

MaxNodes == 5

FunctionDefinition == <<"function_definition">>

EndOfChildren == <<"end">>

VariableName(name, definition) == <<"variable_name", name, definition>>

Superglobals ==
    {"_GET", "_POST", "_REQUEST", "_COOKIE", "_FILES", "_SERVER", "_ENV", "argc", "argv"}

WalkNodes ==
    {FunctionDefinition, EndOfChildren,
     VariableName("a", TRUE), VariableName("a", FALSE), VariableName("b", FALSE),
     VariableName("this", FALSE), VariableName("_GET", FALSE)}

\* The number of function_definition nodes open before the i-th node.
RECURSIVE OpenFunctions(_, _)
OpenFunctions(nodes, i) ==
    IF i <= 1 THEN 0
    ELSE OpenFunctions(nodes, i - 1)
            + (IF nodes[i - 1] = FunctionDefinition THEN 1
               ELSE IF nodes[i - 1] = EndOfChildren THEN -1 ELSE 0)

\* The node sequences that are the walk of a tree.
IsWalk(nodes) ==
    /\ \A i \in 1..(Len(nodes) + 1) : OpenFunctions(nodes, i) >= 0
    /\ OpenFunctions(nodes, Len(nodes) + 1) = 0

Walks == {nodes \in UNION {[1..n -> WalkNodes] : n \in 0..MaxNodes} : IsWalk(nodes)}

enter_scope(scopes) == Append(scopes, {})

exit_scope(scopes) == SubSeq(scopes, 1, Len(scopes) - 1)

define_variable(scopes, name) ==
    IF scopes = <<>> THEN scopes
    ELSE [scopes EXCEPT ![Len(scopes)] = @ \cup {name}]

\* Mutant: only the innermost scope is searched.
IsDefinedInnermostOnly(scopes, name) == scopes # <<>> /\ name \in scopes[Len(scopes)]

is_defined(scopes, name) == \E k \in DOMAIN scopes : name \in scopes[k]

VisitorInit ==
    /\ vNodes \in Walks
    /\ vPos = 0
    /\ vScopes = <<{}>>
    /\ vDiagnostics = <<>>
    /\ vPc = "walking"

VisitorIdle ==
    /\ vNodes = <<>>
    /\ vPos = 0
    /\ vScopes = <<{}>>
    /\ vDiagnostics = <<>>
    /\ vPc = "idle"

\* visit(node) for a function_definition: enter_scope, then the children.
VisitFunction ==
    /\ vPc = "walking"
    /\ vPos < Len(vNodes)
    /\ vNodes[vPos + 1] = FunctionDefinition
    /\ vScopes' = enter_scope(vScopes)
    /\ vPos' = vPos + 1
    /\ UNCHANGED <<vNodes, vDiagnostics, vPc>>
    /\ VisitorFrame

\* The children of a function_definition are done: exit_scope.
LeaveFunction ==
    /\ vPc = "walking"
    /\ vPos < Len(vNodes)
    /\ vNodes[vPos + 1] = EndOfChildren
    /\ vScopes' = exit_scope(vScopes)
    /\ vPos' = vPos + 1
    /\ UNCHANGED <<vNodes, vDiagnostics, vPc>>
    /\ VisitorFrame

\* visit(node) for a variable_name.
VisitVariable ==
    /\ vPc = "walking"
    /\ vPos < Len(vNodes)
    /\ vNodes[vPos + 1][1] = "variable_name"
    /\ LET name == vNodes[vPos + 1][2]
           definition == vNodes[vPos + 1][3]
       IN IF name = "this"
          THEN UNCHANGED <<vScopes, vDiagnostics>>
          ELSE IF name \in Superglobals \/ definition
          THEN /\ vScopes' = define_variable(vScopes, name)
               /\ UNCHANGED vDiagnostics
          ELSE IF ~is_defined(vScopes, name)
          THEN /\ vDiagnostics' = Append(vDiagnostics, vPos + 1)
               /\ UNCHANGED vScopes
          ELSE UNCHANGED <<vScopes, vDiagnostics>>
    /\ vPos' = vPos + 1
    /\ UNCHANGED <<vNodes, vPc>>
    /\ VisitorFrame

\* visit(root) returns; run hands the diagnostics back.
FinishWalk ==
    /\ vPc = "walking"
    /\ vPos = Len(vNodes)
    /\ vPc' = "done"
    /\ UNCHANGED <<vNodes, vPos, vScopes, vDiagnostics>>
    /\ VisitorFrame

VisitorNext == VisitFunction \/ LeaveFunction \/ VisitVariable \/ FinishWalk

(***************************************************************************)
(* strict_typing/missing_return (missing_return.rs) on one function.  A    *)
(* block is a sequence of statements: a return, another simple statement,  *)
(* an if with its then-block and optional else-block, a while loop.        *)
(***************************************************************************)

MaxBodyLen == 2

ReturnStatement == <<"return_statement">>

ExpressionStatement == <<"expression_statement">>

IfStatement(then, has_else, else) == <<"if_statement", then, has_else, else>>

WhileStatement(body) == <<"while_statement", body>>

SimpleBlocks ==
    {<<>>, <<ReturnStatement>>, <<ExpressionStatement>>,
     <<ExpressionStatement, ReturnStatement>>}

FlatStatements ==
    {ReturnStatement, ExpressionStatement}
    \cup {IfStatement(then, FALSE, <<>>) : then \in SimpleBlocks}
    \cup {IfStatement(then, TRUE, else) : then \in SimpleBlocks, else \in SimpleBlocks}
    \cup {WhileStatement(body) : body \in SimpleBlocks}

NestingBlocks ==
    {<<IfStatement(<<ReturnStatement>>, FALSE, <<>>)>>,
     <<IfStatement(<<ReturnStatement>>, TRUE, <<ReturnStatement>>)>>,
     <<WhileStatement(<<ReturnStatement>>)>>}

NestedStatements ==
    {IfStatement(then, FALSE, <<>>) : then \in NestingBlocks}
    \cup {IfStatement(then, TRUE, <<ReturnStatement>>) : then \in NestingBlocks}
    \cup {WhileStatement(body) : body \in NestingBlocks}

Statements == FlatStatements \cup NestedStatements

Bodies == UNION {[1..n -> Statements] : n \in 0..MaxBodyLen}

\* The block holds a return_statement at any depth (walk_node over the
\* block; for a branch, the returns within its byte range).
RECURSIVE HasReturnNode(_)
HasReturnNode(block) ==
    IF block = <<>> THEN FALSE
    ELSE LET node == Head(block)
         IN \/ node = ReturnStatement
            \/ node[1] = "if_statement"
                /\ (HasReturnNode(node[2]) \/ (node[3] /\ HasReturnNode(node[4])))
            \/ node[1] = "while_statement" /\ HasReturnNode(node[2])
            \/ HasReturnNode(Tail(block))

\* Some return of the block has no if_statement or else_clause between it
\* and the body: any(|r| !has_conditional_ancestor(r, body)).
RECURSIVE HasUnconditionalReturn(_)
HasUnconditionalReturn(block) ==
    IF block = <<>> THEN FALSE
    ELSE LET node == Head(block)
         IN \/ node = ReturnStatement
            \/ node[1] = "while_statement" /\ HasUnconditionalReturn(node[2])
            \/ HasUnconditionalReturn(Tail(block))

\* The if_statement nodes of the block at any depth.
RECURSIVE IfStatementsOf(_)
IfStatementsOf(block) ==
    IF block = <<>> THEN {}
    ELSE LET node == Head(block)
             inner ==
                IF node[1] = "if_statement"
                THEN {node} \cup IfStatementsOf(node[2])
                        \cup (IF node[3] THEN IfStatementsOf(node[4]) ELSE {})
                ELSE IF node[1] = "while_statement" THEN IfStatementsOf(node[2])
                ELSE {}
         IN inner \cup IfStatementsOf(Tail(block))

all_conditional_branches_return(body) ==
    /\ IfStatementsOf(body) # {}
    /\ \A if_stmt \in IfStatementsOf(body) :
        /\ if_stmt[3]
        /\ HasReturnNode(if_stmt[2])
        /\ HasReturnNode(if_stmt[4])

\* The closure of MissingReturnRule::run for one function_definition.
MissingReturnReported(body) ==
    /\ HasReturnNode(body)
    /\ ~HasUnconditionalReturn(body)
    /\ ~all_conditional_branches_return(body)

ReturnInit ==
    /\ mBody \in Bodies
    /\ mPc = "run"
    /\ mReported = FALSE

ReturnIdle ==
    /\ mBody = <<>>
    /\ mPc = "idle"
    /\ mReported = FALSE

RunMissingReturn ==
    /\ mPc = "run"
    /\ mReported' = MissingReturnReported(mBody)
    /\ mPc' = "done"
    /\ UNCHANGED mBody
    /\ ReturnFrame

ReturnNext == RunMissingReturn

(***************************************************************************)
(* type_expression_to_hint (helpers.rs): a TypeExpression of phpdoc/       *)
(* types.rs to an Option<TypeHint>, <<>> for None and <<hint>> for Some.   *)
(***************************************************************************)

MaxMembers == 2

ExprSimple(name) == <<"Simple", name>>

ExprArray(inner) == <<"Array", inner>>

ExprGeneric(base, params) == <<"Generic", base, params>>

ExprUnion(types) == <<"Union", types>>

ExprNullable(inner) == <<"Nullable", inner>>

ExprMixed == <<"Mixed">>

ExprVoid == <<"Void">>

ExprNever == <<"Never">>

None == <<>>

Some(value) == <<value>>

\* The expressions that occur as members of a union.
MemberExpressions ==
    {ExprSimple("int"), ExprSimple("string"), ExprSimple("A"),
     ExprMixed, ExprVoid, ExprNever,
     ExprArray(ExprSimple("int")), ExprArray(ExprMixed),
     ExprNullable(ExprSimple("string")),
     ExprGeneric("array", <<ExprSimple("string"), ExprSimple("int")>>),
     ExprGeneric("array", <<ExprSimple("int")>>),
     ExprGeneric("array", <<ExprMixed, ExprSimple("int")>>),
     ExprGeneric("Collection", <<ExprSimple("A"), ExprSimple("int")>>)}

UnionExpressions ==
    {ExprUnion(types) : types \in UNION {[1..n -> MemberExpressions] : n \in 1..MaxMembers}}

TypeExpressions ==
    MemberExpressions \cup UnionExpressions
    \cup {ExprNullable(u) : u \in UnionExpressions}
    \cup {ExprArray(u) : u \in UnionExpressions}

\* Option::map
MapOption(option, Wrap(_)) == IF option = None THEN None ELSE Some(Wrap(option[1]))

\* The `Simple` arm.
SimpleToHint(name) ==
    CASE name \in {"int", "integer"} -> HintInt
      [] name = "string" -> HintString
      [] name \in {"bool", "boolean"} -> HintBool
      [] name \in {"float", "double"} -> HintFloat
      [] OTHER -> HintObject(name)

RECURSIVE type_expression_to_hint(_)

\* types.iter().filter_map(type_expression_to_hint).collect()
RECURSIVE FilterMapHints(_)
FilterMapHints(types) ==
    IF types = <<>> THEN <<>>
    ELSE type_expression_to_hint(Head(types)) \o FilterMapHints(Tail(types))

\* The `Union` arm.
UnionToHint(types) ==
    LET hints == FilterMapHints(types)
    IN IF hints = <<>> THEN None ELSE Some(HintUnion(hints))

\* The `Generic` arm.
GenericToHint(base, params) ==
    IF base = "array" /\ Len(params) = 2
    THEN LET key_hint == type_expression_to_hint(params[1])
             value_hint == type_expression_to_hint(params[2])
         IN IF key_hint = None \/ value_hint = None THEN None
            ELSE Some(HintGenericArray(key_hint[1], value_hint[1]))
    ELSE None

type_expression_to_hint(expr) ==
    CASE expr[1] = "Simple" -> Some(SimpleToHint(expr[2]))
      [] expr[1] = "Nullable" ->
            MapOption(type_expression_to_hint(expr[2]), HintNullable)
      [] expr[1] = "Union" -> UnionToHint(expr[2])
      [] expr[1] = "Array" -> MapOption(type_expression_to_hint(expr[2]), HintArray)
      [] expr[1] = "Generic" -> GenericToHint(expr[2], expr[3])
      [] OTHER -> None

ExprInit ==
    /\ eExpr \in TypeExpressions
    /\ ePc = "call"
    /\ eResult = None

ExprIdle ==
    /\ eExpr = ExprMixed
    /\ ePc = "idle"
    /\ eResult = None

CallTypeExpressionToHint ==
    /\ ePc = "call"
    /\ eResult' = type_expression_to_hint(eExpr)
    /\ ePc' = "done"
    /\ UNCHANGED eExpr
    /\ ExprFrame

ExprNext == CallTypeExpressionToHint

(***************************************************************************)
(* PhpDocVarCheckRule::check_array_elements (phpdoc_var_check.rs) for an   *)
(* expected type T[], with infer_type and literal_type (helpers.rs).  A    *)
(* value node is its kind with, for a new expression, the class name       *)
(* child ("" without one) and, for a variable, what infer_variable_type    *)
(* finds for it.                                                           *)
(***************************************************************************)

MaxElements == 2

ValueNodes ==
    {<<"integer">>, <<"string">>, <<"boolean">>, <<"float">>,
     <<"object_creation_expression", "A">>, <<"object_creation_expression", "">>,
     <<"variable_name", Some(HintInt)>>, <<"variable_name", None>>,
     <<"function_call_expression">>, <<"binary_expression">>,
     <<"array_creation_expression">>}

literal_type(node) ==
    CASE node[1] \in {"string", "encapsed_string"} -> Some(HintString)
      [] node[1] = "integer" -> Some(HintInt)
      [] node[1] = "boolean" -> Some(HintBool)
      [] node[1] = "float" -> Some(HintFloat)
      [] OTHER -> None

infer_type(node) ==
    IF literal_type(node) # None THEN literal_type(node)
    ELSE IF node[1] = "object_creation_expression"
    THEN IF node[2] # "" THEN Some(HintObject(node[2])) ELSE Some(HintUnknown)
    ELSE IF node[1] = "variable_name"
    THEN IF node[2] # None THEN node[2] ELSE Some(HintUnknown)
    ELSE None

\* extract_array_elements: every value node with its inferred type.
extract_array_elements(elements) ==
    [k \in DOMAIN elements |-> <<k, infer_type(elements[k])>>]

\* The loop of check_array_elements over the extracted elements.
RECURSIVE CheckElements(_, _)
CheckElements(extracted, expected_elem) ==
    IF extracted = <<>> THEN <<>>
    ELSE LET elem_node == Head(extracted)[1]
             elem_type_opt == Head(extracted)[2]
             rest == CheckElements(Tail(extracted), expected_elem)
         IN IF elem_type_opt = None THEN rest
            ELSE IF elem_type_opt[1] = HintUnknown
            THEN <<[node |-> elem_node, severity |-> "Error", message |-> "cannot infer"]>>
                    \o rest
            ELSE IF ~IsTypeCompatible(elem_type_opt[1], expected_elem)
            THEN <<[node |-> elem_node, severity |-> "Error", message |-> "conflicts"]>>
                    \o rest
            ELSE rest

check_array_elements(elements, expected_type) ==
    IF Tag(expected_type) = "Array"
    THEN CheckElements(extract_array_elements(elements), expected_type[2])
    ELSE <<>>

ElementsInit ==
    /\ xElements \in UNION {[1..n -> ValueNodes] : n \in 0..MaxElements}
    /\ xExpected \in {HintArray(HintInt), HintArray(HintString)}
    /\ xPc = "check"
    /\ xDiagnostics = <<>>

ElementsIdle ==
    /\ xElements = <<>>
    /\ xExpected = HintUnknown
    /\ xPc = "idle"
    /\ xDiagnostics = <<>>

CallCheckArrayElements ==
    /\ xPc = "check"
    /\ xDiagnostics' = check_array_elements(xElements, xExpected)
    /\ xPc' = "done"
    /\ UNCHANGED <<xElements, xExpected>>
    /\ ElementsFrame

ElementsNext == CallCheckArrayElements

(***************************************************************************)
(* Whole-root analysis with strict_typing/missing_argument                 *)
(* (missing_argument.rs): the phase-1 workers insert their files in the    *)
(* order in which they obtain the lock, then the rule runs on every file.  *)
(* A file declares the function f with some number of required parameters *)
(* or not at all, and calls f with some number of arguments or not at all. *)
(***************************************************************************)

MaxCallFiles == 3

CallFiles == [declares : {<<>>, <<1>>, <<2>>}, calls : {<<>>, <<1>>}]

\* collect_function_symbols with the required_params of each symbol.
DeclaredSymbols(path, file) ==
    [k \in DOMAIN file.declares |->
        [fq_name |-> <<"f">>, file |-> path, required_params |-> file.declares[k]]]

\* The scope of a file without namespace and use declarations.
GlobalScope == [namespace |-> <<>>, uses |-> NoUses]

\* The closure of MissingArgumentRule::run for the calls of one file.
MissingArguments(index, path, file) ==
    {[file |-> path, argument |-> file.calls[k] + 1] :
        k \in {k \in DOMAIN file.calls :
                LET symbol == resolve_function_symbol(index, <<GlobalScope>>, <<"f">>)
                IN symbol # <<>> /\ file.calls[k] < symbol[1].required_params}}

SchedInit ==
    /\ dFiles \in UNION {[1..n -> CallFiles] : n \in 1..MaxCallFiles}
    /\ dInserted = <<>>
    /\ dIndex = [k \in {} |-> <<>>]
    /\ dPc = "phase1"
    /\ dOutput = {}

SchedIdle ==
    /\ dFiles = <<>>
    /\ dInserted = <<>>
    /\ dIndex = [k \in {} |-> <<>>]
    /\ dPc = "idle"
    /\ dOutput = {}

\* The worker of one path holds the lock and inserts its file.
WorkerInserts(path) ==
    /\ dPc = "phase1"
    /\ \A k \in DOMAIN dInserted : dInserted[k] # path
    /\ dIndex' = PushSymbols(dIndex, DeclaredSymbols(path, dFiles[path]))
    /\ dInserted' = Append(dInserted, path)
    /\ UNCHANGED <<dFiles, dPc, dOutput>>
    /\ SchedFrame

\* Phase 2: the rule runs on every parsed file against the finished index.
RunMissingArgument ==
    /\ dPc = "phase1"
    /\ Len(dInserted) = Len(dFiles)
    /\ dOutput' = UNION {MissingArguments(dIndex, path, dFiles[path]) : path \in DOMAIN dFiles}
    /\ dPc' = "returned"
    /\ UNCHANGED <<dFiles, dInserted, dIndex>>
    /\ SchedFrame

SchedNext == (\E path \in DOMAIN dFiles : WorkerInserts(path)) \/ RunMissingArgument

(***************************************************************************)
(* The specifications.                                                     *)
(***************************************************************************)

TypesStart ==
    TypesInit /\ ConfigIdle /\ FixIdle /\ IgnoreIdle /\ AnalyzerIdle /\ ProjectIdle
        /\ RootIdle
        /\ LinesIdle
        /\ OverrideIdle
        /\ VisitorIdle
        /\ ReturnIdle
        /\ ExprIdle
        /\ ElementsIdle
        /\ SchedIdle

SpecTypes == TypesStart /\ [][TypesNext]_vars

ConfigStart ==
    ConfigInit /\ TypesIdle /\ FixIdle /\ IgnoreIdle /\ AnalyzerIdle /\ ProjectIdle
        /\ RootIdle
        /\ LinesIdle
        /\ OverrideIdle
        /\ VisitorIdle
        /\ ReturnIdle
        /\ ExprIdle
        /\ ElementsIdle
        /\ SchedIdle

SpecConfig == ConfigStart /\ [][ConfigNext]_vars

FixStart ==
    FixInit /\ TypesIdle /\ ConfigIdle /\ IgnoreIdle /\ AnalyzerIdle /\ ProjectIdle
        /\ RootIdle
        /\ LinesIdle
        /\ OverrideIdle
        /\ VisitorIdle
        /\ ReturnIdle
        /\ ExprIdle
        /\ ElementsIdle
        /\ SchedIdle

SpecFix == FixStart /\ [][FixNext]_vars

IgnoreStart ==
    IgnoreInit /\ TypesIdle /\ ConfigIdle /\ FixIdle /\ AnalyzerIdle /\ ProjectIdle
        /\ RootIdle
        /\ LinesIdle
        /\ OverrideIdle
        /\ VisitorIdle
        /\ ReturnIdle
        /\ ExprIdle
        /\ ElementsIdle
        /\ SchedIdle

SpecIgnore == IgnoreStart /\ [][IgnoreNext]_vars

ChainStart ==
    ChainInit /\ ConfigIdle /\ FixIdle /\ IgnoreIdle /\ AnalyzerIdle /\ ProjectIdle
        /\ RootIdle
        /\ LinesIdle
        /\ OverrideIdle
        /\ VisitorIdle
        /\ ReturnIdle
        /\ ExprIdle
        /\ ElementsIdle
        /\ SchedIdle

SpecChain == ChainStart /\ [][ChainNext]_vars

AliasesStart ==
    AliasesInit /\ TypesIdle /\ ConfigIdle /\ FixIdle /\ IgnoreIdle /\ AnalyzerIdle
        /\ RootIdle
        /\ LinesIdle
        /\ OverrideIdle
        /\ VisitorIdle
        /\ ReturnIdle
        /\ ExprIdle
        /\ ElementsIdle
        /\ SchedIdle

SpecAliases == AliasesStart /\ [][AliasesNext]_vars

ResolveStart ==
    ResolveInit /\ TypesIdle /\ ConfigIdle /\ FixIdle /\ IgnoreIdle /\ AnalyzerIdle
        /\ RootIdle
        /\ LinesIdle
        /\ OverrideIdle
        /\ VisitorIdle
        /\ ReturnIdle
        /\ ExprIdle
        /\ ElementsIdle
        /\ SchedIdle

SpecResolve == ResolveStart /\ [][ResolveNext]_vars

RootStart ==
    RootInit /\ TypesIdle /\ ConfigIdle /\ FixIdle /\ IgnoreIdle /\ AnalyzerIdle
        /\ ProjectIdle
        /\ LinesIdle
        /\ OverrideIdle
        /\ VisitorIdle
        /\ ReturnIdle
        /\ ExprIdle
        /\ ElementsIdle
        /\ SchedIdle

SpecRoot == RootStart /\ [][RootNext]_vars

LinesStart ==
    LinesInit /\ TypesIdle /\ ConfigIdle /\ FixIdle /\ IgnoreIdle /\ AnalyzerIdle
        /\ ProjectIdle /\ RootIdle
        /\ OverrideIdle
        /\ VisitorIdle
        /\ ReturnIdle
        /\ ExprIdle
        /\ ElementsIdle
        /\ SchedIdle

SpecLines == LinesStart /\ [][LinesNext]_vars

OverrideStart ==
    OverrideInit /\ TypesIdle /\ ConfigIdle /\ FixIdle /\ IgnoreIdle /\ AnalyzerIdle
        /\ ProjectIdle /\ RootIdle /\ LinesIdle
        /\ VisitorIdle
        /\ ReturnIdle
        /\ ExprIdle
        /\ ElementsIdle
        /\ SchedIdle

SpecOverride == OverrideStart /\ [][OverrideNext]_vars

VisitorStart ==
    VisitorInit /\ TypesIdle /\ ConfigIdle /\ FixIdle /\ IgnoreIdle /\ AnalyzerIdle
        /\ ProjectIdle /\ RootIdle /\ LinesIdle /\ OverrideIdle
        /\ ReturnIdle
        /\ ExprIdle
        /\ ElementsIdle
        /\ SchedIdle

SpecVisitor == VisitorStart /\ [][VisitorNext]_vars

ReturnStart ==
    ReturnInit /\ TypesIdle /\ ConfigIdle /\ FixIdle /\ IgnoreIdle /\ AnalyzerIdle
        /\ ProjectIdle /\ RootIdle /\ LinesIdle /\ OverrideIdle /\ VisitorIdle
        /\ ExprIdle
        /\ ElementsIdle
        /\ SchedIdle

SpecReturn == ReturnStart /\ [][ReturnNext]_vars

ExprStart ==
    ExprInit /\ TypesIdle /\ ConfigIdle /\ FixIdle /\ IgnoreIdle /\ AnalyzerIdle
        /\ ProjectIdle /\ RootIdle /\ LinesIdle /\ OverrideIdle /\ VisitorIdle
        /\ ReturnIdle
        /\ ElementsIdle
        /\ SchedIdle

SpecExpr == ExprStart /\ [][ExprNext]_vars

ElementsStart ==
    ElementsInit /\ TypesIdle /\ ConfigIdle /\ FixIdle /\ IgnoreIdle /\ AnalyzerIdle
        /\ ProjectIdle /\ RootIdle /\ LinesIdle /\ OverrideIdle /\ VisitorIdle
        /\ ReturnIdle /\ ExprIdle
        /\ SchedIdle

SpecElements == ElementsStart /\ [][ElementsNext]_vars

SchedStart ==
    SchedInit /\ TypesIdle /\ ConfigIdle /\ FixIdle /\ IgnoreIdle /\ AnalyzerIdle
        /\ ProjectIdle /\ RootIdle /\ LinesIdle /\ OverrideIdle /\ VisitorIdle
        /\ ReturnIdle /\ ExprIdle /\ ElementsIdle

SpecSched == SchedStart /\ [][SchedNext]_vars

AnalyzerStart ==
    AnalyzerInit /\ TypesIdle /\ ConfigIdle /\ FixIdle /\ IgnoreIdle /\ ProjectIdle
        /\ RootIdle
        /\ LinesIdle
        /\ OverrideIdle
        /\ VisitorIdle
        /\ ReturnIdle
        /\ ExprIdle
        /\ ElementsIdle
        /\ SchedIdle

SpecAnalyzer == AnalyzerStart /\ [][AnalyzerNext]_vars

(***************************************************************************)
(* Properties of is_type_compatible.                                       *)
(***************************************************************************)

TypesDone == tPc = "done"

HintPrimitives == {HintInt, HintString, HintBool, HintFloat}

\* C1: is_type_compatible is reflexive: for every TypeHint T of every
\* variant, is_type_compatible(T, T) returns true.
C1_Reflexive == (TypesDone /\ tActual = tExpected) => tResult

C1_Witness ==
    /\ TypesDone
    /\ tActual = HintNullable(HintUnion(<<HintNullable(HintInt), HintUnknown>>))
    /\ tExpected = tActual
    /\ tResult

RECURSIVE AcceptsUnknown(_)
AcceptsUnknown(t) ==
    \/ t = HintUnknown
    \/ Tag(t) = "Nullable" /\ AcceptsUnknown(t[2])
    \/ Tag(t) = "Union" /\ \E i \in DOMAIN t[2] : AcceptsUnknown(t[2][i])

\* The actual types that flow into an Unknown expected: Unknown itself and
\* unions built of nothing but Unknown.
RECURSIVE OnlyUnknown(_)
OnlyUnknown(t) ==
    \/ t = HintUnknown
    \/ Tag(t) = "Union" /\ \A i \in DOMAIN t[2] : OnlyUnknown(t[2][i])

C3_NullableAbsorption ==
    TypesDone =>
        /\ (tExpected = HintNullable(tActual) => tResult)
        /\ (Tag(tExpected) = "Nullable" /\ tActual = tExpected => tResult)

C3_Witness ==
    /\ TypesDone
    /\ Tag(tActual) = "Union"
    /\ tExpected = HintNullable(tActual)
    /\ tResult

\* C4: a nullable actual never flows into a non-nullable expected: for every
\* T that is not itself a Nullable wrapper, is_type_compatible(Nullable(T), T)
\* returns false.
C4_NullableNotIntoInner ==
    (TypesDone /\ tActual = HintNullable(tExpected) /\ Tag(tExpected) # "Nullable")
        => ~tResult

C4_Witness ==
    /\ TypesDone
    /\ tExpected = HintUnion(<<HintInt, HintNullable(HintInt)>>)
    /\ tActual = HintNullable(tExpected)
    /\ ~tResult

C19_Transitive == (TypesDone /\ tLeft /\ tRight) => tResult

\* int|string into string|int into ?(string|int), and the three types differ.
C19_Witness ==
    /\ TypesDone
    /\ tActual = HintUnion(<<HintInt, HintString>>)
    /\ tVia = HintUnion(<<HintString, HintInt>>)
    /\ tExpected = HintNullable(HintUnion(<<HintString, HintInt>>))
    /\ tLeft /\ tRight /\ tResult

(***************************************************************************)
(* Properties of AnalyzerConfig::enabled.                                  *)
(***************************************************************************)

\* The name itself and what is left of it in front of each of its '/'.
SlashPrefixes(name) ==
    {name} \cup {Take(name, i - 1) : i \in {j \in DOMAIN name : name[j] = "/"}}

ConfiguredPrefixes(rules, name) == SlashPrefixes(name) \cap DOMAIN rules

LongestOf(S) == CHOOSE k \in S : \A other \in S : Len(other) <= Len(k)

GroupA == <<"a">>
NameAA == <<"a", "/", "a">>

GroupThenSpecific ==
    /\ DOMAIN cRules = {GroupA, NameAA}
    /\ cRules[GroupA]
    /\ ~cRules[NameAA]

\* C8 (as claimed, its last part): with {a: true, a/a: false} every a/...
\* name other than a/a is enabled.
C8_EveryOtherNameEnabled ==
    (cPc = "done" /\ GroupThenSpecific
        /\ cName # NameAA /\ StartsWith(cName, <<"a", "/">>)) => cResult

\* C8 (amended): enabled(name) returns the boolean stored under the longest
\* key among name and its prefixes cut at a '/' boundary, and true when none
\* of them is a key; with {a: true, a/a: false}, a/a and the names below it
\* (a/a/...) are disabled and every other a/... name is enabled.
C8_GroupFallback ==
    cPc = "done" =>
        /\ ConfiguredPrefixes(cRules, cName) = {} => cResult
        /\ ConfiguredPrefixes(cRules, cName) # {} =>
            cResult = cRules[LongestOf(ConfiguredPrefixes(cRules, cName))]
        /\ GroupThenSpecific =>
            /\ (cName = NameAA \/ StartsWith(cName, <<"a", "/", "a", "/">>)) => ~cResult
            /\ (/\ cName # NameAA
                /\ StartsWith(cName, <<"a", "/">>)
                /\ ~StartsWith(cName, <<"a", "/", "a", "/">>)) => cResult

C8_Witness ==
    /\ cPc = "done"
    /\ GroupThenSpecific
    /\ cName = <<"a", "/", "a", "a">>
    /\ cResult

(***************************************************************************)
(* Properties of apply_text_edits.                                         *)
(***************************************************************************)

FixDone == fPc = "done"

\* Some edit starts before the end of an edit that precedes it in the
\* (start, end) order.
SomeEditOverlaps(edits) ==
    \E i \in DOMAIN edits : \E j \in DOMAIN edits :
        /\ i # j
        /\ EditLessEq(edits[i], edits[j])
        /\ edits[j].start < edits[i].end

PairwiseNonOverlapping(edits) ==
    \A i \in DOMAIN edits : \A j \in DOMAIN edits :
        i # j => (edits[i].end <= edits[j].start \/ edits[j].end <= edits[i].start)

InBounds(source, edits) ==
    \A i \in DOMAIN edits :
        edits[i].start <= edits[i].end /\ edits[i].end <= Len(source)

OnCharBoundaries(source, edits) ==
    \A i \in DOMAIN edits :
        /\ IsCharBoundary(source, edits[i].start)
        /\ IsCharBoundary(source, edits[i].end)

\* C9 (as claimed, its second part): apply_text_edits never aborts for a
\* list of in-bounds, pairwise non-overlapping edits with start <= end.
C9_NoAbortInBounds ==
    (FixDone /\ InBounds(fSource, fEdits) /\ PairwiseNonOverlapping(fEdits))
        => ~fResult.panicked

\* C9 (amended): apply_text_edits aborts without returning text whenever,
\* in (start, end) order, some edit starts before the end of an edit that
\* precedes it; it never aborts for a list of in-bounds edits with
\* start <= end that are pairwise non-overlapping and whose offsets lie on
\* character boundaries of the source.
C9_OverlapAborts ==
    FixDone =>
        /\ SomeEditOverlaps(fEdits) => fResult = Aborted
        /\ (/\ InBounds(fSource, fEdits)
            /\ OnCharBoundaries(fSource, fEdits)
            /\ PairwiseNonOverlapping(fEdits)) => ~fResult.panicked

\* An insert at the start of an edit and the edit adjacent to it are applied.
C9_Witness ==
    /\ FixDone
    /\ Len(fEdits) = 2
    /\ fEdits[1].start = 1 /\ fEdits[1].end = 2
    /\ fEdits[2].start = 1 /\ fEdits[2].end = 1
    /\ IsCharBoundary(fSource, 1) /\ IsCharBoundary(fSource, 2)
    /\ ~fResult.panicked

\* An edit nested in another one aborts the call.
C9_WitnessAbort ==
    /\ FixDone
    /\ Len(fEdits) = 2
    /\ fEdits[1].start = 1 /\ fEdits[1].end = 2
    /\ fEdits[2].start = 0 /\ fEdits[2].end = 3
    /\ fResult = Aborted

\* The replacements that land at offset pos: those of the inserts there, in
\* list order, then that of the edit that replaces a range starting there.
RECURSIVE Flatten(_)
Flatten(edits) ==
    IF edits = <<>> THEN <<>> ELSE Head(edits).replacement \o Flatten(Tail(edits))

InsertedAt(edits, pos) ==
    Flatten(SelectSeq(edits, LAMBDA e : e.start = pos /\ e.end = pos))
        \o Flatten(SelectSeq(edits, LAMBDA e : e.start = pos /\ e.end > pos))

Covered(edits, pos) == \E i \in DOMAIN edits : edits[i].start <= pos /\ pos < edits[i].end

\* The source read offset by offset: what is inserted at the offset, then
\* the byte at the offset unless an edit's range covers it.
RECURSIVE PatchedFrom(_, _, _)
PatchedFrom(source, edits, pos) ==
    IF pos > Len(source) THEN <<>>
    ELSE InsertedAt(edits, pos)
            \o (IF pos < Len(source) /\ ~Covered(edits, pos)
                THEN <<source[pos + 1]>> ELSE <<>>)
            \o PatchedFrom(source, edits, pos + 1)

\* C11 (as claimed): for every source and every list of in-bounds, pairwise
\* non-overlapping edits, apply_text_edits returns the source with each
\* edit's range replaced by its replacement and every other byte kept.
C11_PatchedInBounds ==
    (FixDone /\ InBounds(fSource, fEdits) /\ PairwiseNonOverlapping(fEdits))
        => fResult = Returned(PatchedFrom(fSource, fEdits, 0))

\* C11 (amended): for every source and every list of in-bounds, pairwise
\* non-overlapping edits whose offsets lie on character boundaries,
\* apply_text_edits returns the source in which each edit's range
\* [start, end) is replaced by its replacement, edits taken in ascending
\* (start, end) order, and every byte outside all ranges is kept unchanged
\* and in its original order.
C11_PatchedOnBoundaries ==
    (/\ FixDone
     /\ InBounds(fSource, fEdits)
     /\ OnCharBoundaries(fSource, fEdits)
     /\ PairwiseNonOverlapping(fEdits))
        => fResult = Returned(PatchedFrom(fSource, fEdits, 0))

\* Two edits given out of order: the removal of the first line and an
\* insert before the last byte; the first line alone is gone.
C11_Witness ==
    /\ FixDone
    /\ fSource = <<"x", "NL", "x">>
    /\ fEdits = <<TextEdit(2, 2, <<"r">>), TextEdit(0, 2, <<>>)>>
    /\ fResult = Returned(<<"r", "x">>)

(***************************************************************************)
(* Properties of IgnoreState.                                              *)
(***************************************************************************)

PatternSet(state) == {state.patterns[k] : k \in DOMAIN state.patterns}

\* C7: when ignore-everything is not set, should_ignore(rule) is true if
\* and only if some recorded pattern equals the lower-cased rule name or the
\* lower-cased rule name starts with the pattern immediately followed by
\* '/'; a pattern that is only a textual prefix never suppresses.
C7_PrefixScoped ==
    (iPc = "asked" /\ ~iState.ignore_all) =>
        (iAnswer <=>
            \E p \in PatternSet(iState) :
                \/ ToAsciiLowercase(iRule) = p
                \/ StartsWith(ToAsciiLowercase(iRule), p \o <<"/">>))

\* The pattern a does not suppress the rule aa/a.
C7_Witness ==
    /\ iPc = "asked"
    /\ ~iState.ignore_all
    /\ iState.patterns = <<<<"a">>>>
    /\ iRule = <<"a", "a", "/", "a">>
    /\ ~iAnswer

(***************************************************************************)
(* Properties of dispatch and of fix generation.                           *)
(***************************************************************************)

HasFileLevelMarker(source) ==
    \E k \in DOMAIN Lines(source) : Find(Lines(source)[k], FILE_DIRECTIVE) # -1

\* The statements of the file that some rule of the registry reports.
Violations(source) == Offsets(source, {"UD", "UV", "UU", "UM"})

\* C6: whenever a file's Ignore State is ignore-everything (a file-level
\* marker on any line, with or without arguments), analysing the file
\* returns zero diagnostics, invokes no rule's run and computes no Test
\* Override, however many violations the file contains.
C6_IgnoreFileAbsolute ==
    (/\ aPc \in {"analysed", "fixed", "applied"}
     /\ \/ HasFileLevelMarker(aSource)
        \/ ignores_everything(from_source(aSource)))
        => (aDiagnostics = <<>> /\ aRan = <<>> /\ ~aTestComputed)

\* A file with a file-level marker on its last line, two violations above
\* it and every rule of the registry enabled has been analysed.
C6_Witness ==
    /\ aPc = "analysed"
    /\ aRules = Registry
    /\ aSource = <<"UV", "NL", "UD", "NL", "/", "/", " ", "DIR", "-file">>
    /\ Len(Violations(aSource)) = 2
    /\ aDiagnostics = <<>>

\* The diagnostics for which the reporting rule's fix step proposes an edit.
IsFixable(diag, source) == source[diag.start + 1] \in Fixed(diag.rule_name)

NoFixableDiagnostics ==
    \A k \in DOMAIN aDiagnostics : ~IsFixable(aDiagnostics[k], aSource)

\* C10: for every file for which analysis reports zero fixable diagnostics,
\* applying the edit list that fix_files produces for that file with
\* apply_text_edits yields text identical to the original.
C10_CleanInputUnchanged ==
    (aPc = "applied" /\ NoFixableDiagnostics) => aPatched = Returned(aSource)

\* The lines of the file that are scanned for a test override.
ScannedLines(source) ==
    {Lines(source)[k] : k \in 1..Min({TestScanLines, Len(Lines(source))})}

InSkipList(source, rule) == SkipLine \in ScannedLines(source) /\ rule = UnusedVariableRule

AllowListDeclared(source) == OnlyLine \in ScannedLines(source)

InAllowList(rule) == rule \in {UnusedVariableRule, UndefinedVariableRule}

WasRun(rule) == \E k \in DOMAIN aRan : aRan[k] = rule

Rooted(name) == Head(name) = "BS"

WithoutLeadingSeparator(name) == IF Rooted(name) THEN Tail(name) ELSE name

\* The text before the first separator of a relative name, and the text
\* after it (<<>> when there is no separator).
FirstSegment(name) ==
    IF Find(name, <<"BS">>) = -1 THEN name ELSE Take(name, Find(name, <<"BS">>))

AfterFirstSegment(name) ==
    IF Find(name, <<"BS">>) = -1 THEN <<>> ELSE Drop(name, Find(name, <<"BS">>) + 1)

FirstRegistered(name) == IF name \in DOMAIN pIndex THEN <<pIndex[name][1]>> ELSE <<>>

\* The candidates of a relative name: through the alias, in the namespace.
ThroughAlias(scope, name) ==
    IF AfterFirstSegment(name) = <<>>
    THEN scope.uses[FirstSegment(name)[1]].target
    ELSE scope.uses[FirstSegment(name)[1]].target \o <<"BS">> \o AfterFirstSegment(name)

InNamespace(scope, name) == scope.namespace \o <<"BS">> \o name

\* C16: resolve_function_symbol returns the first registered symbol of the
\* first candidate that has any: for a root-qualified name only the name
\* without the leading separator; otherwise (1) the target of the alias
\* matching the first segment, joined with the remaining segments if any,
\* (2) the file's namespace joined with the name, (3) the bare name; and
\* none when no candidate is indexed or the file has no metadata.
C16_ResolveOrder ==
    pPc = "resolved" =>
        pResult =
            IF pScope = <<>> THEN <<>>
            ELSE IF Rooted(pName) THEN FirstRegistered(WithoutLeadingSeparator(pName))
            ELSE IF /\ FirstSegment(pName)[1] \in DOMAIN pScope[1].uses
                    /\ ThroughAlias(pScope[1], pName) \in DOMAIN pIndex
                 THEN FirstRegistered(ThroughAlias(pScope[1], pName))
            ELSE IF /\ pScope[1].namespace # <<>>
                    /\ InNamespace(pScope[1], pName) \in DOMAIN pIndex
                 THEN FirstRegistered(InNamespace(pScope[1], pName))
            ELSE FirstRegistered(pName)

\* The name a is an alias of m and is also a function of the namespace n
\* the file is in; both are indexed and the alias target is returned.
C16_Witness ==
    /\ pPc = "resolved"
    /\ pName = <<"a">>
    /\ pScope # <<>>
    /\ pScope[1].namespace = <<"n">>
    /\ "a" \in DOMAIN pScope[1].uses
    /\ pScope[1].uses["a"].target = <<"m">>
    /\ {<<"m">>, <<"n", "BS", "a">>} \subseteq DOMAIN pIndex
    /\ pResult = <<FunctionSymbol(<<"m">>, "p1")>>

\* The clauses of the file in document order.
DocumentOrder == ClausesFrom(pDecls, 0)

FirstClauseOf(alias) ==
    DocumentOrder[Min({k \in DOMAIN DocumentOrder : DocumentOrder[k].alias = alias})]

\* C17: alias keys are unique per file with first-seen-wins: when two
\* clauses of one file resolve to the same alias, the metadata keeps the
\* target, span and clause byte range of the clause that comes first in
\* document order.
C17_FirstSeenWins ==
    pPc = "collected" =>
        \A alias \in DOMAIN pUses : pUses[alias] = UseInfo(FirstClauseOf(alias))

\* The Ignore State of an input file.
IgnoreStateOf(path) == from_source(rFiles[path].source)

\* The diagnostics the rule battery yields for a readable input file.
ExpectedDiagnostics(path) ==
    FileDiagnostics(AnalyzerNew(rConfig.rules), path, rFiles[path].source)

InOutput(diagnostic) == \E i \in DOMAIN rOutput : rOutput[i] = diagnostic

\* C13: ignore directives suppress every returned diagnostic: no diagnostic
\* returned for a file carries a rule name that the file's Ignore State
\* suppresses, and none at all is returned for a file whose Ignore State is
\* ignore-everything, whether the rule battery or the PSR-4 namespace check
\* produced it.
C13_IgnoresSuppressEveryDiagnostic ==
    rPc = "returned" =>
        \A i \in DOMAIN rOutput :
            /\ ~ignores_everything(IgnoreStateOf(rOutput[i].file))
            /\ ~should_ignore(IgnoreStateOf(rOutput[i].file), rOutput[i].rule_name)

\* C14: input errors are isolated per file in whole-root mode: when one of
\* several input files cannot be read or parsed, the run still returns, and
\* it returns the diagnostics of every other file.
C14_InputErrorsIsolated ==
    (/\ rPc \in {"failed", "returned"}
     /\ \E path \in InputPaths : ~rFiles[path].readable
     /\ \E path \in InputPaths : rFiles[path].readable) =>
        /\ rPc = "returned"
        /\ \A path \in InputPaths :
            rFiles[path].readable =>
                \A k \in DOMAIN ExpectedDiagnostics(path) :
                    InOutput(ExpectedDiagnostics(path)[k])

\* C18: the PSR-4 namespace check is gated by the group-fallback lookup of
\* its rule name alone: with psr4.enabled it runs exactly when psr4/namespace
\* is enabled under the most-specific-entry lookup, so it runs under
\* {psr4: false, psr4/namespace: true}; without psr4.enabled it never runs.
C18_GatedByRuleNameLookup ==
    rPc = "returned" =>
        (rPsr4Ran <=> (rConfig.psr4_enabled /\ Enabled(rConfig.rules, PSR4_RULE_NAME)))

\* No rule has run unless every worker of phase 1 has finished its insert
\* and the lock is free.
RulesAfterInserts ==
    rAnalysed # {} =>
        /\ \A path \in InputPaths : rWorker[path] = "done"
        /\ rLock = 0

\* From the start of phase 2 no step changes the Project Context.
ReadOnlyInPhase2 == rPc \in {"phase2", "returned"} => rContext' = rContext

\* Phase 2 is entered only when the accumulator has a single handle.
SoleHandleAtConversion == (rPc = "phase1" /\ rPc' = "phase2") => rStrong = 1

IndexedSymbolsOf(path) ==
    {<<name, i>> \in UNION {{name} \X DOMAIN rContext.function_symbols[name] :
                                name \in DOMAIN rContext.function_symbols} :
        rContext.function_symbols[name][i].file = path}

\* C20: after phase 1 completes without error, under every interleaving of
\* the workers, the source mapping and the file-metadata mapping have the
\* same key set, the set of input paths; every function symbol of the index
\* names a file of the source mapping; and every file's source, scope and
\* symbols are there in full.
C20_ContextComplete ==
    rPc = "phase2" =>
        /\ DOMAIN rContext.sources = InputPaths
        /\ DOMAIN rContext.file_scopes = InputPaths
        /\ \A name \in DOMAIN rContext.function_symbols :
            \A i \in DOMAIN rContext.function_symbols[name] :
                rContext.function_symbols[name][i].file \in DOMAIN rContext.sources
        /\ \A path \in InputPaths :
            /\ rContext.sources[path] = rFiles[path].source
            /\ rContext.file_scopes[path].namespace
                    = collect_file_metadata(path, rFiles[path].source).namespace
            /\ Cardinality(IndexedSymbolsOf(path))
                    = Len(collect_file_metadata(path, rFiles[path].source).symbols)

\* Two files that declare the same function were inserted by two workers.
C20_Witness ==
    /\ rPc = "phase2"
    /\ Cardinality(InputPaths) = 2
    /\ \E name \in DOMAIN rContext.function_symbols :
            Len(rContext.function_symbols[name]) = 2

\* The 0-based offsets of the newlines of the source.
NewlineOffsets == {j \in 0..(Len(lSource) - 1) : lSource[j + 1] = "NL"}

\* The offset just after the nearest newline before the range, or 0.
LineStartOfRange ==
    LET before == {j \in NewlineOffsets : j < lStart}
    IN IF before = {} THEN 0 ELSE Max(before) + 1

\* The offset just after the first newline at or after the last touched
\* byte, or the end of the file.
LineEndOfRange ==
    LET after == {j \in NewlineOffsets : j >= lEnd - 1}
    IN IF after = {} THEN Len(lSource) ELSE Min(after) + 1

\* C21: covering_line_range returns exactly the full lines that a non-empty
\* byte range [start, end) touches: from 0 or just after the nearest newline
\* before start to just after the first newline at or after the last touched
\* byte (or the end of the file); the result contains the input range and no
\* byte of a line the range does not touch, also when end sits just after a
\* newline.
C21_ExactlyTouchedLines ==
    (lPc = "returned" /\ lStart < lEnd) =>
        /\ lResult = <<LineStartOfRange, LineEndOfRange>>
        /\ lResult[1] <= lStart
        /\ lEnd <= lResult[2]

HasFileMarker(line) == Find(line, <<"DIR", "-file">>) # -1

HasRuleMarker(line) == Find(line, <<"DIR">>) # -1 /\ ~HasFileMarker(line)

\* The argument list of a rule-level marker: the text after the marker up to
\* the first comment marker, without surrounding spaces and a leading ':'.
ArgumentList(line) ==
    LET tail == Drop(line, Find(line, <<"DIR">>) + 1)
        cuts == {i \in 0..(Len(tail) - 1) :
                    \/ tail[i + 1] = "#"
                    \/ /\ i + 2 <= Len(tail)
                       /\ <<tail[i + 1], tail[i + 2]>> \in
                            {<<"/", "/">>, <<"/", "*">>, <<"*", "/">>}}
        kept == Trim(IF cuts = {} THEN tail ELSE Take(tail, Min(cuts)))
    IN IF kept # <<>> /\ Head(kept) = ":" THEN Trim(Tail(kept)) ELSE kept

\* A token without its quotes and trailing slashes, in lower case.
BareToken(token) ==
    LET unquoted == TrimMatches(token, {"DQUOTE", "SQUOTE", "BQUOTE"})
        upper == <<"A", "L", "F", "I", "E">>
        lower == <<"a", "l", "f", "i", "e">>
    IN [k \in DOMAIN TrimEndMatches(unquoted, {"/"}) |->
            IF \E j \in 1..5 : upper[j] = unquoted[k]
            THEN lower[CHOOSE j \in 1..5 : upper[j] = unquoted[k]]
            ELSE unquoted[k]]

\* The tokens of a rule-level marker's argument list that are not empty.
TokensOf(line) ==
    LET pieces == SplitOn(ArgumentList(line), {",", " "})
        bare == [k \in DOMAIN pieces |-> BareToken(pieces[k])]
    IN SelectSeq(bare, LAMBDA token : token # <<>>)

IsWildcard(token) == token \in {<<"*">>, <<"a", "l", "l">>, <<"f", "i", "l", "e">>}

WildcardsIn(line) == {k \in DOMAIN TokensOf(line) : IsWildcard(TokensOf(line)[k])}

\* The line sets ignore-everything.
Escalates(line) ==
    \/ HasFileMarker(line)
    \/ /\ HasRuleMarker(line)
       /\ (ArgumentList(line) = <<>> \/ WildcardsIn(line) # {})

\* The suppression patterns the line records: its tokens up to the first
\* wildcard.
RecordedBy(line) ==
    IF ~HasRuleMarker(line) THEN <<>>
    ELSE IF WildcardsIn(line) = {} THEN TokensOf(line)
    ELSE Take(TokensOf(line), Min(WildcardsIn(line)) - 1)

EscalatingLines == {k \in DOMAIN Lines(iSource) : Escalates(Lines(iSource)[k])}

\* The lines that are parsed: up to the first one that escalates.
ParsedLines ==
    IF EscalatingLines = {} THEN Lines(iSource)
    ELSE Take(Lines(iSource), Min(EscalatingLines))

RECURSIVE RecordedByAll(_)
RecordedByAll(lines) ==
    IF lines = <<>> THEN <<>> ELSE RecordedBy(Head(lines)) \o RecordedByAll(Tail(lines))

\* C22: ignore-directive parsing escalates only on wildcards: a rule-level
\* marker with an empty argument list or with a token equal to *, all or
\* file (after quote and trailing-slash trimming and lower-casing) sets
\* ignore-everything and ends the parsing of later tokens and lines; every
\* other token is recorded as a suppression pattern and does not set
\* ignore-everything.
C22_EscalatesOnlyOnWildcards ==
    iPc \in {"parsed", "asked"} =>
        /\ iState.ignore_all <=> EscalatingLines # {}
        /\ iState.patterns = RecordedByAll(ParsedLines)

\* A block comment naming only the group a: a/a is suppressed, aa is not.
C22_Witness ==
    /\ iPc = "asked"
    /\ iSource = <<"/", "*", " ", "DIR", ":", " ", "a", " ", "*", "/", "NL">>
    /\ iState = [ignore_all |-> FALSE, patterns |-> <<<<"a">>>>]
    /\ iRule = <<"a", "/", "a">>
    /\ iAnswer

\* The lines of the source that are scanned for a test override.
OverrideScanned ==
    Take(Lines(oSource), Min({TestScanLines, Len(Lines(oSource))}))

\* The line holds the marker followed by only-rules= or skip-rules= and a
\* rule name.
DeclaresOverride(line) ==
    \E i \in DOMAIN line :
        /\ line[i] = "PCT"
        /\ LET rest == TrimStart(Drop(line, i))
           IN /\ Len(rest) >= 2
              /\ rest[1] \in {"ONLY=", "SKIP="}
              /\ rest[2] \notin {" ", ","}

\* C23: the test-override marker is recognised as a substring anywhere in a
\* comment line: a scanned line that contains the marker followed by
\* only-rules=... or skip-rules=... makes the file a test-override file,
\* whatever precedes the marker on that line.
C23_MarkerAnywhereInLine ==
    oPc = "parsed" =>
        ((\E k \in DOMAIN OverrideScanned : DeclaresOverride(OverrideScanned[k]))
            => is_test_file(oConfig))

IsUse(node) ==
    /\ node[1] = "variable_name"
    /\ ~node[3]
    /\ node[2] # "this"
    /\ node[2] \notin Superglobals

Defines(node, name) ==
    /\ node[1] = "variable_name"
    /\ node[2] = name
    /\ name # "this"
    /\ (node[3] \/ name \in Superglobals)

\* The function_definition node that encloses the j-th node is not yet
\* exited when the k-th node is visited.
StillOpen(j, k) ==
    \A i \in j..k : OpenFunctions(vNodes, i) >= OpenFunctions(vNodes, j)

\* The name was defined before the k-th node in a scope that is on the
\* stack when the k-th node is visited.
DefinedBefore(name, k) ==
    \E j \in 1..(k - 1) : Defines(vNodes[j], name) /\ StillOpen(j, k)

ReportedAt(k) == \E i \in DOMAIN vDiagnostics : vDiagnostics[i] = k

\* The names a scope of the stack holds: those defined directly in its
\* function, which is still open.
NamesOfScope(depth) ==
    {name \in {"a", "b", "_GET"} :
        \E j \in 1..vPos :
            /\ Defines(vNodes[j], name)
            /\ OpenFunctions(vNodes, j) + 1 = depth
            /\ StillOpen(j, vPos + 1)}

\* C24: in the scope walk a variable reference that is a use is reported if
\* and only if its name was not defined earlier in the walk in a scope that
\* is on the stack; a definition adds its name to the innermost scope only;
\* the names defined in a function are gone once the function is exited; the
\* stack is never empty and holds the top-level scope alone at the end.
C24_ScopeWalk ==
    vPc \in {"walking", "done"} =>
        /\ \A k \in 1..vPos :
            ReportedAt(k) <=> (IsUse(vNodes[k]) /\ ~DefinedBefore(vNodes[k][2], k))
        /\ Len(vScopes) = OpenFunctions(vNodes, vPos + 1) + 1
        /\ \A depth \in DOMAIN vScopes : vScopes[depth] = NamesOfScope(depth)
        /\ vPc = "done" => Len(vScopes) = 1

\* A name defined inside a function is used there without a report and is
\* reported when it is used after the function.
C24_Witness ==
    /\ vPc = "done"
    /\ vNodes = <<FunctionDefinition, VariableName("a", TRUE),
                  VariableName("a", FALSE), EndOfChildren, VariableName("a", FALSE)>>
    /\ vDiagnostics = <<5>>
    /\ vScopes = <<{}>>

\* Control can reach the end of the block without executing a return: every
\* statement of the block can complete.  A loop body may run zero times.
RECURSIVE CanFallThrough(_)
CanFallThrough(block) ==
    IF block = <<>> THEN TRUE
    ELSE LET node == Head(block)
             completes ==
                IF node = ReturnStatement THEN FALSE
                ELSE IF node[1] = "if_statement"
                THEN CanFallThrough(node[2]) \/ (node[3] => CanFallThrough(node[4]))
                ELSE TRUE
         IN completes /\ CanFallThrough(Tail(block))

\* C25: the missing-return rule is conservative: for a function body with at
\* least one return statement, if some control-flow path reaches the end of
\* the body without executing a return, the rule reports the function.
C25_NeverSilentOnMissingPath ==
    (mPc = "done" /\ HasReturnNode(mBody) /\ CanFallThrough(mBody)) => mReported

\* The second field list holds the fields of the first in another order.
IsPermutation(fields1, fields2) ==
    /\ Len(fields1) = Len(fields2)
    /\ \E order \in [DOMAIN fields1 -> DOMAIN fields2] :
        /\ \A i, j \in DOMAIN fields1 : order[i] = order[j] => i = j
        /\ \A i \in DOMAIN fields1 : fields2[order[i]] = fields1[i]

\* C26: field order is not significant for the compatibility of shaped
\* records: when F2 is a permutation of F1, is_type_compatible(
\* ShapedArray(F1), ShapedArray(F2)) returns true.
C26_FieldOrderInsignificant ==
    (/\ TypesDone
     /\ Tag(tActual) = "ShapedArray"
     /\ Tag(tExpected) = "ShapedArray"
     /\ IsPermutation(tActual[2], tExpected[2])) => tResult

\* The expression has a Type Value: a simple name; a nullable or an array of
\* a convertible expression; a two-parameter array of convertible
\* expressions.
RECURSIVE Convertible(_)
Convertible(expr) ==
    CASE expr[1] = "Simple" -> TRUE
      [] expr[1] \in {"Nullable", "Array"} -> Convertible(expr[2])
      [] expr[1] = "Generic" ->
            /\ expr[2] = "array"
            /\ Len(expr[3]) = 2
            /\ Convertible(expr[3][1])
            /\ Convertible(expr[3][2])
      [] expr[1] = "Union" -> \A k \in DOMAIN expr[2] : Convertible(expr[2][k])
      [] OTHER -> FALSE

\* C27: union conversion is all-or-nothing: a union type-expression with an
\* unconvertible member is unconvertible; otherwise it converts to a Union
\* with one converted member per source member, in order.
C27_UnionAllOrNothing ==
    (ePc = "done" /\ eExpr[1] = "Union") =>
        IF \E k \in DOMAIN eExpr[2] : ~Convertible(eExpr[2][k])
        THEN eResult = None
        ELSE /\ eResult # None
             /\ eResult[1][1] = "Union"
             /\ Len(eResult[1][2]) = Len(eExpr[2])
             /\ \A k \in DOMAIN eExpr[2] :
                    Some(eResult[1][2][k]) = type_expression_to_hint(eExpr[2][k])

\* The type of the value is known: a literal, a new expression naming its
\* class, a variable with a known assignment.
HasKnownType(node) ==
    \/ node[1] \in {"integer", "string", "encapsed_string", "boolean", "float"}
    \/ node[1] = "object_creation_expression" /\ node[2] # ""
    \/ node[1] = "variable_name" /\ node[2] # <<>>

\* C28: Unknown is always reported: every array element compared against
\* the expected element type whose type is Unknown or cannot be inferred at
\* all gets an Error-severity diagnostic; none is skipped.
C28_UnknownAlwaysReported ==
    xPc = "done" =>
        \A k \in DOMAIN xElements :
            ~HasKnownType(xElements[k]) =>
                \E i \in DOMAIN xDiagnostics :
                    /\ xDiagnostics[i].node = k
                    /\ xDiagnostics[i].severity = "Error"

\* The function index after the files were inserted in the order of their
\* paths.
RECURSIVE IndexInPathOrder(_)
IndexInPathOrder(n) ==
    IF n = 0 THEN [k \in {} |-> <<>>]
    ELSE PushSymbols(IndexInPathOrder(n - 1), DeclaredSymbols(n, dFiles[n]))

\* C29: analysis is deterministic under worker scheduling: for fixed input
\* files the set of diagnostics returned is the same for every order in
\* which the phase-1 workers insert their files, here the same as for the
\* insertion in path order.
C29_DeterministicUnderScheduling ==
    dPc = "returned" =>
        dOutput = UNION {MissingArguments(IndexInPathOrder(Len(dFiles)), path, dFiles[path]) :
                            path \in DOMAIN dFiles}

\* C30: the merged edit list that fix_files returns for a file is always
\* applicable: no two of its edits overlap and apply_text_edits on it does not
\* abort, also when two removable statements sit on the same source line.
C30_MergedEditsApplicable ==
    aPc = "applied" =>
        /\ PairwiseNonOverlapping(aEdits)
        /\ aPatched # Aborted

====
